---- MODULE Spec2Model ----
(***************************************************************************)
(* Snapshot discovery and acquisition engine of thw-nodekit                *)
(* (src/thw_nodekit/toolkit/commands/snap_finder.py).                      *)
(*                                                                         *)
(* The module-level globals of snap_finder.py are the variables.  One      *)
(* action stands for one sequential stretch of code that ends at the next  *)
(* network call, thread-shared access or return.  Answers of the network   *)
(* (the RPC endpoint, the peers' HTTP surface, wget) are chosen with \E    *)
(* from the sets the variable net offers.                                  *)
(***************************************************************************)
EXTENDS Integers, Sequences, FiniteSets, TLC

\* ------------------------------------------------------------------------
\* Program constants (run_snap_finder, main_worker, get_snapshot_slot)
\* ------------------------------------------------------------------------
NUM_OF_MAX_ATTEMPTS == 5
MAX_SNAPSHOT_AGE_IN_SLOTS_CONFIG == 1300
MAX_LATENCY_CONFIG == 100
MIN_DOWNLOAD_SPEED_MB_CONFIG == 60
FUTURE_SLOT_TOLERANCE == 100
num_of_rpc_to_check_speed == 15
PRIVATE_RPC_PORT == 8899

\* ------------------------------------------------------------------------
\* Bounds of the model
\* ------------------------------------------------------------------------
\* longest getClusterNodes listing the RPC endpoint answers with
MaxListing == 2
\* most throughput samples one speed measurement collects
MaxSamples == 2
\* most candidates in a list handed to the ranker on its own
MaxRanked == 3

None == "None"

\* ------------------------------------------------------------------------
\* File names.  A redirect location is kept as the list of its "-"-separated
\* fields, which is what str.split("-") makes of it; the first field holds
\* the leading "/" of the path.
\* ------------------------------------------------------------------------
\* int(): the decimal strings of the model and their values; any other
\* field raises ValueError.
DecimalValue ==
    [s \in {"0", "1000", "1700", "2000", "2900", "2950", "2990", "3100", "3101", "3200"} |->
        CASE s = "0" -> 0
          [] s = "1000" -> 1000
          [] s = "1700" -> 1700
          [] s = "3100" -> 3100
          [] s = "2000" -> 2000
          [] s = "2900" -> 2900
          [] s = "2950" -> 2950
          [] s = "2990" -> 2990
          [] s = "3101" -> 3101
          [] s = "3200" -> 3200]

IsInt(s) == s \in DOMAIN DecimalValue

int(s) == DecimalValue[s]

\* str.endswith('.tar') of a location: decided by its last field
endswith_tar(loc) == Len(loc) > 0 /\ loc[Len(loc)] \in {"h.tar"}

\* Path(p).name: the last path segment, i.e. the location without its
\* leading "/"
BaseField(s) ==
    CASE s = "/incremental" -> "incremental"
      [] s = "/snapshot" -> "snapshot"
      [] s = "/x" -> "x"
      [] OTHER -> s

PathName(loc) == IF Len(loc) = 0 THEN loc ELSE [loc EXCEPT ![1] = BaseField(@)]

\* name.startswith("snapshot-")
startswith_snapshot(name) == Len(name) >= 2 /\ name[1] = "snapshot"

\* "incremental-snapshot" in name.lower()
has_incremental_snapshot(name) ==
    \E k \in 1..(Len(name) - 1) : name[k] = "incremental" /\ name[k + 1] = "snapshot"

IncLoc(base, tip) == <<"/incremental", "snapshot", base, tip, "h.tar.zst">>
FullLoc(slot) == <<"/snapshot", slot, "h.tar.zst">>

\* ------------------------------------------------------------------------
\* Answers of the network
\* ------------------------------------------------------------------------
\* What do_request returns for a HEAD: a response (with or without a
\* location header, after lat milliseconds) or one of its two error strings.
Resp(loc, lat) == [kind |-> "resp", hasloc |-> TRUE, loc |-> loc, lat |-> lat]
NoLocation == [kind |-> "resp", hasloc |-> FALSE, loc |-> <<>>, lat |-> 40]
TimeoutErr == [kind |-> "timeout", hasloc |-> FALSE, loc |-> <<>>, lat |-> 0]
UnknownErr == [kind |-> "unknown", hasloc |-> FALSE, loc |-> <<>>, lat |-> 0]

is_error(r) == r.kind # "resp"

\* Slots the getSlot call answers with
Slots == {3000}

\* Peers: host and port
Addr(ip, port) == <<ip, port>>

\* node.get("rpc") / node.get("gossip") of an entry without that key
NoAddr == <<>>

\* Entries of a getClusterNodes answer
PublicA == [rpc |-> Addr("a", 8899), gossip |-> Addr("a", 8001), version |-> "2.1"]
PublicB == [rpc |-> Addr("b", 8899), gossip |-> Addr("b", 8001), version |-> "2.2"]
PrivateB == [rpc |-> NoAddr, gossip |-> Addr("b", 8001), version |-> "2.1"]
PrivateC == [rpc |-> NoAddr, gossip |-> NoAddr, version |-> "2.1"]
Nodes == {PublicA, PublicB, PrivateB, PrivateC}

RECURSIVE SeqsUpTo(_, _)
SeqsUpTo(S, n) ==
    IF n = 0 THEN {<<>>}
    ELSE LET shorter == SeqsUpTo(S, n - 1)
         IN  shorter \cup {Append(q, x) : q \in shorter, x \in S}

Listings == SeqsUpTo(Nodes, MaxListing)

VARIABLES
    pc,                       \* where run_snap_finder / main_worker stands
    result,                   \* what run_snap_finder returned: "True", "False", None while it runs
    num_attempts_made,
    WITH_PRIVATE_RPC_CONFIG,
    current_slot,
    DISCARDED,                \* the six DISCARDED_BY_* counters
    FULL_LOCAL_SNAP_SLOT,
    unsuitable_servers,
    json_data,                \* json_data["rpc_nodes"]
    rpc_nodes,                \* the peer list of the attempt
    worker,                   \* the pool's threads, one per peer
    rpc_nodes_sorted,
    i,                        \* position of the speed-check loop
    files_left,               \* references of the accepted peer still to process
    snapshot_dir,             \* the download directory: the newest snapshot-*tar*
                              \* file, the files this run has created in it under
                              \* their final names, its tmp- files
    net,                      \* what the network may answer
    hist                      \* bookkeeping of what has happened (not program state)

vars == <<pc, result, num_attempts_made, WITH_PRIVATE_RPC_CONFIG, current_slot,
          DISCARDED, FULL_LOCAL_SNAP_SLOT, unsuitable_servers, json_data,
          rpc_nodes, worker, rpc_nodes_sorted, i, files_left, snapshot_dir,
          net, hist>>

Reasons == {"ARCHIVE_TYPE", "LATENCY", "SLOT", "VERSION", "UNKNW_ERR", "TIMEOUT"}
ZeroTally == [r \in Reasons |-> 0]

\* ------------------------------------------------------------------------
\* do_request's error bookkeeping (single-threaded callers): lines 129-135
\* ------------------------------------------------------------------------
count_error(tally, r) ==
    CASE r.kind = "timeout" -> [tally EXCEPT !["TIMEOUT"] = @ + 1]
      [] r.kind = "unknown" -> [tally EXCEPT !["UNKNW_ERR"] = @ + 1]
      [] OTHER -> tally

\* ------------------------------------------------------------------------
\* Initial state: the module is imported (or an earlier run has returned),
\* run_snap_finder has passed its argument and environment checks.
\* ------------------------------------------------------------------------
NoHist ==
    [sleeps |-> 0,            \* time.sleep calls of the run
     worker_failed |-> FALSE, \* some main_worker call of the run returned 1
     events |-> ZeroTally,    \* discard events the pool's threads performed
     pool_joined |-> FALSE,   \* the attempt's pool has been joined
     measured |-> <<>>,       \* peers measure_speed was called for, this attempt
     cleared |-> <<>>,        \* per measurement: was the speed at least the minimum
     accepted |-> <<>>,       \* peers passed to the download loop, this attempt
     failed_dl |-> {},        \* accepted peers with a failed download, this attempt
     refs |-> <<>>,           \* what became of each reference of the peer in the
                              \* download loop, until the loop moves on
     interrupted |-> FALSE]   \* a KeyboardInterrupt has ended the run

LocalSnapshots == {<<>>, <<"snapshot", "2000", "h.tar.zst">>, <<"snapshot", "x", "h.tar.zst">>}

\* snapshot_info.json is not in the directory
NoReport == [absent |-> TRUE]

\* The download directory before the run has written anything
Directory(newest) ==
    [newest_full |-> newest, created |-> {}, tmp |-> {}, report |-> NoReport]

InitCommon ==
    /\ pc = "start"
    /\ result = None
    /\ num_attempts_made = 0
    /\ WITH_PRIVATE_RPC_CONFIG \in BOOLEAN
    /\ current_slot = 0
    /\ DISCARDED = ZeroTally
    /\ FULL_LOCAL_SNAP_SLOT = 0
    /\ unsuitable_servers = {}
    /\ json_data = <<>>
    /\ rpc_nodes = {}
    /\ worker = <<>>
    /\ rpc_nodes_sorted = <<>>
    /\ i = 0
    /\ files_left = <<>>
    /\ snapshot_dir \in {Directory(n) : n \in LocalSnapshots}
    /\ hist = NoHist

\* ------------------------------------------------------------------------
\* run_snap_finder: the retry loop (lines 506-669)
\* ------------------------------------------------------------------------
\* lines 533-547, 615: the run's configuration
Setup ==
    /\ pc = "start"
    /\ WITH_PRIVATE_RPC_CONFIG' = FALSE
    /\ num_attempts_made' = 0
    /\ pc' = "loop"
    /\ UNCHANGED <<result, current_slot, DISCARDED, FULL_LOCAL_SNAP_SLOT,
                   unsuitable_servers, json_data, rpc_nodes, worker,
                   rpc_nodes_sorted, i, files_left, snapshot_dir, net, hist>>

\* (a changed copy of BeginAttempt: the reset also clears the private-RPC flag)
BeginAttemptResetsFlag ==
    /\ pc = "loop"
    /\ num_attempts_made < NUM_OF_MAX_ATTEMPTS
    /\ num_attempts_made' = num_attempts_made + 1
    /\ DISCARDED' = ZeroTally
    /\ FULL_LOCAL_SNAP_SLOT' = 0
    /\ unsuitable_servers' = {}
    /\ json_data' = <<>>
    /\ WITH_PRIVATE_RPC_CONFIG' = FALSE
    /\ hist' = [hist EXCEPT !.events = ZeroTally, !.pool_joined = FALSE,
                            !.measured = <<>>, !.cleared = <<>>,
                            !.accepted = <<>>, !.failed_dl = {}, !.refs = <<>>]
    /\ pc' = "get_slot"
    /\ UNCHANGED <<result, current_slot, rpc_nodes,
                   worker, rpc_nodes_sorted, i, files_left, snapshot_dir, net>>

\* (a changed copy of BeginAttempt: the counters, the unsuitable peers and the
\* candidate list are left as the attempt before left them)
BeginAttemptKeepsState ==
    /\ pc = "loop"
    /\ num_attempts_made < NUM_OF_MAX_ATTEMPTS
    /\ num_attempts_made' = num_attempts_made + 1
    /\ FULL_LOCAL_SNAP_SLOT' = 0
    /\ hist' = [hist EXCEPT !.events = ZeroTally, !.pool_joined = FALSE,
                            !.measured = <<>>, !.cleared = <<>>,
                            !.accepted = <<>>, !.failed_dl = {}, !.refs = <<>>]
    /\ pc' = "get_slot"
    /\ UNCHANGED <<result, WITH_PRIVATE_RPC_CONFIG, current_slot, rpc_nodes,
                   DISCARDED, unsuitable_servers, json_data,
                   worker, rpc_nodes_sorted, i, files_left, snapshot_dir, net>>

\* lines 616-630: loop head and the per-attempt reset
BeginAttempt ==
    /\ pc = "loop"
    /\ num_attempts_made < NUM_OF_MAX_ATTEMPTS
    /\ num_attempts_made' = num_attempts_made + 1
    /\ DISCARDED' = ZeroTally
    /\ FULL_LOCAL_SNAP_SLOT' = 0
    /\ unsuitable_servers' = {}
    /\ json_data' = <<>>
    /\ hist' = [hist EXCEPT !.events = ZeroTally, !.pool_joined = FALSE,
                            !.measured = <<>>, !.cleared = <<>>,
                            !.accepted = <<>>, !.failed_dl = {}, !.refs = <<>>]
    /\ pc' = "get_slot"
    /\ UNCHANGED <<result, WITH_PRIVATE_RPC_CONFIG, current_slot, rpc_nodes,
                   worker, rpc_nodes_sorted, i, files_left, snapshot_dir, net>>

\* (a changed copy of last_attempt: the comparison is off by one)
last_attempt_off_by_one(n) == n > NUM_OF_MAX_ATTEMPTS

\* lines 639 and 662: no attempt is left, the loop is left with break
last_attempt(n) == n >= NUM_OF_MAX_ATTEMPTS

\* What get_current_slot makes of the RPC endpoint's answer (lines 138-151)
\* as records: a transport error of do_request, a body without 'result', or
\* the slot
SlotAnswers ==
    {[kind |-> k, slot |-> 0] : k \in {"timeout", "unknown", "noresult"}}
        \cup {[kind |-> "ok", slot |-> s] : s \in Slots}

\* (a changed copy of slot_fetched: the answer is not looked at)
slot_fetch_unchecked(a) == TRUE

\* line 637: slot_val is not None
slot_fetched(a) == a.kind = "ok"

\* lines 633-643: the height fetch; on failure the attempt ends at once
\* (break on the last attempt, else sleep and continue)
GetCurrentSlot ==
    /\ pc = "get_slot"
    /\ \E a \in SlotAnswers :
          /\ DISCARDED' = count_error(DISCARDED, a)
          /\ IF slot_fetched(a)
                THEN /\ current_slot' = a.slot
                     /\ pc' = "get_ips"
                     /\ result' = result
                ELSE /\ current_slot' = current_slot
                     /\ IF last_attempt(num_attempts_made)
                           THEN pc' = "done" /\ result' = "False"
                           ELSE pc' = "sleep" /\ result' = result
    /\ UNCHANGED <<num_attempts_made, WITH_PRIVATE_RPC_CONFIG, FULL_LOCAL_SNAP_SLOT,
                   unsuitable_servers, json_data, rpc_nodes, worker,
                   rpc_nodes_sorted, i, files_left, snapshot_dir, net, hist>>

\* lines 658-660: the escalation after a failed main_worker call
\* (_initial_with_private_rpc is False throughout, line 538)
INITIAL_WITH_PRIVATE_RPC == FALSE

\* (a changed copy of escalate: the flag is left as it is)
escalate_never(flag) == flag

escalate(flag) == IF ~flag /\ ~INITIAL_WITH_PRIVATE_RPC THEN TRUE ELSE flag

\* lines 657-665 and 667-669: main_worker returned 1
AttemptFailed ==
    /\ pc = "attempt_failed"
    /\ WITH_PRIVATE_RPC_CONFIG' = escalate(WITH_PRIVATE_RPC_CONFIG)
    /\ hist' = [hist EXCEPT !.worker_failed = TRUE]
    /\ IF last_attempt(num_attempts_made)
          THEN pc' = "done" /\ result' = "False"
          ELSE pc' = "sleep" /\ result' = result
    /\ UNCHANGED <<num_attempts_made, current_slot, DISCARDED, FULL_LOCAL_SNAP_SLOT,
                   unsuitable_servers, json_data, rpc_nodes, worker,
                   rpc_nodes_sorted, i, files_left, snapshot_dir, net>>

\* lines 641 and 665: time.sleep(_SLEEP_BEFORE_RETRY), then the loop head
Sleep ==
    /\ pc = "sleep"
    /\ hist' = [hist EXCEPT !.sleeps = @ + 1]
    /\ pc' = "loop"
    /\ UNCHANGED <<result, num_attempts_made, WITH_PRIVATE_RPC_CONFIG, current_slot,
                   DISCARDED, FULL_LOCAL_SNAP_SLOT, unsuitable_servers, json_data,
                   rpc_nodes, worker, rpc_nodes_sorted, i, files_left,
                   snapshot_dir, net>>

\* ------------------------------------------------------------------------
\* get_all_rpc_ips (lines 154-190)
\* ------------------------------------------------------------------------
\* lines 535-536: the version filter run_snap_finder configures
SPECIFIC_VERSION_CONFIG == None
WILDCARD_VERSION_CONFIG == None

NoFilter == [wildcard |-> WILDCARD_VERSION_CONFIG, specific |-> SPECIFIC_VERSION_CONFIG]

\* a "version" of an entry that is no string (a JSON number)
NonString == "<number>"

\* WILDCARD_VERSION_CONFIG in node_version, for the versions of the model
version_contains(version, w) == w = version \/ (w = "2." /\ version \in {"2.1", "2.2"})

\* line 169: `WILDCARD_VERSION_CONFIG not in node_version` raises TypeError
\* for a version that is no string
version_raises(node) ==
    net.version_filter.wildcard # None /\ node.version = NonString

\* lines 169-170, with the module globals WILDCARD_VERSION_CONFIG and
\* SPECIFIC_VERSION_CONFIG as the call finds them
version_rejected(node) ==
    \/ (net.version_filter.wildcard # None /\ node.version # None
            /\ ~version_contains(node.version, net.version_filter.wildcard))
    \/ (net.version_filter.specific # None /\ node.version # None
            /\ node.version # net.version_filter.specific)

\* (a changed copy of node_address: the flag is not looked at)
node_address_any(node, with_private) ==
    IF node.rpc # NoAddr THEN {node.rpc}
    ELSE IF node.gossip # NoAddr
            THEN {Addr(node.gossip[1], PRIVATE_RPC_PORT)}
            ELSE {}

\* lines 174-181: the address one entry contributes, if any
node_address(node, with_private) ==
    IF node.rpc # NoAddr THEN {node.rpc}
    ELSE IF with_private /\ node.gossip # NoAddr
            THEN {Addr(node.gossip[1], PRIVATE_RPC_PORT)}
            ELSE {}

\* lines 165-184: the loop over the listing; the result is
\* <<rpc_ips, number of version discards, has the loop raised>>, rpc_ips
\* being the list of the addresses in the order of their entries; an
\* exception ends the loop at its entry
RECURSIVE scan_nodes(_, _)
scan_nodes(listing, with_private) ==
    IF listing = <<>> THEN <<<<>>, 0, FALSE>>
    ELSE LET rest == scan_nodes(Tail(listing), with_private)
             node == Head(listing)
             address == node_address(node, with_private)
         IN  IF version_raises(node)
                THEN <<<<>>, 0, TRUE>>
             ELSE IF version_rejected(node)
                THEN <<rest[1], rest[2] + 1, rest[3]>>
                ELSE <<(IF address = {} THEN <<>> ELSE <<CHOOSE x \in address : TRUE>>)
                           \o rest[1],
                       rest[2], rest[3]>>

\* (a changed copy of list_of_set: the list is returned as it was built)
list_as_built(list) == list

\* list(set(rpc_ips)), line 187: every address of the list once (in the
\* order of the first occurrences; the order a set gives is not used by the
\* callers)
RECURSIVE list_of_set(_)
list_of_set(list) ==
    IF list = <<>> THEN <<>>
    ELSE LET front == list_of_set(SubSeq(list, 1, Len(list) - 1))
             x == list[Len(list)]
         IN  IF \E k \in 1..Len(front) : front[k] = x THEN front ELSE Append(front, x)

\* get_all_rpc_ips() for the answer a of the getClusterNodes call, lines
\* 159-190: <<the list returned, number of version discards>>
get_all_rpc_ips(a, with_private) ==
    IF a.kind = "ok"
       THEN LET scanned == scan_nodes(a.listing, with_private)
            IN  IF scanned[3]
                   THEN <<<<>>, scanned[2]>>
                   ELSE <<list_of_set(scanned[1]), scanned[2]>>
       ELSE <<<<>>, 0>>

\* What the getClusterNodes call answers: a transport error, a body without
\* 'result', a result that is no list of objects, or a listing
DirectoryAnswers ==
    {[kind |-> k, listing |-> <<>>] : k \in {"timeout", "unknown", "noresult", "malformed"}}
        \cup {[kind |-> "ok", listing |-> l] : l \in Listings}

\* (a changed copy of no_peers: an empty peer list is not looked for)
no_peers_ignored(ips) == FALSE

\* line 331: if not rpc_nodes
no_peers(ips) == ips = {}

\* lines 330-333 of main_worker with get_all_rpc_ips: the peer list of the
\* attempt; an empty list ends the attempt with 1
GetAllRpcIps ==
    /\ pc = "get_ips"
    /\ \E a \in net.directory :
          LET returned == get_all_rpc_ips(a, WITH_PRIVATE_RPC_CONFIG)
              ips == {returned[1][k] : k \in 1..Len(returned[1])}
              tally == count_error(DISCARDED, a)
          IN  /\ DISCARDED' = [tally EXCEPT !["VERSION"] = @ + returned[2]]
              /\ rpc_nodes' = ips
              /\ pc' = IF no_peers(ips) THEN "attempt_failed" ELSE "inspect"
    /\ UNCHANGED <<result, num_attempts_made, WITH_PRIVATE_RPC_CONFIG, current_slot,
                   FULL_LOCAL_SNAP_SLOT, unsuitable_servers, json_data, worker,
                   rpc_nodes_sorted, i, files_left, snapshot_dir, net, hist>>

\* ------------------------------------------------------------------------
\* Local State Inspector (main_worker, lines 339-351)
\* ------------------------------------------------------------------------
\* int(Path(FULL_LOCAL_SNAPSHOTS[0]).name.split("-")[1]), 0 when there is no
\* file or the field does not parse
local_full_slot(newest) ==
    IF newest = <<>> THEN 0
    ELSE IF Len(newest) >= 2 /\ IsInt(newest[2]) THEN int(newest[2])
    ELSE 0

\* A pool thread before its first step
\* (failed and out are bookkeeping: did a request of the thread fail, "early"
\* before or "final" at the independent full HEAD; has the thread appended)
NewWorker == [pc |-> "inc_head", r_inc |-> NoLocation, pend |-> <<>>,
              tmp |-> -1, after |-> "done", failed |-> "no", out |-> FALSE]

\* lines 335-356: inspect the download directory, then hand every peer to
\* the thread pool
InspectLocal ==
    /\ pc = "inspect"
    /\ FULL_LOCAL_SNAP_SLOT' = local_full_slot(snapshot_dir.newest_full)
    /\ worker' = [p \in rpc_nodes |-> NewWorker]
    /\ pc' = "probing"
    /\ UNCHANGED <<result, num_attempts_made, WITH_PRIVATE_RPC_CONFIG, current_slot,
                   DISCARDED, unsuitable_servers, json_data, rpc_nodes,
                   rpc_nodes_sorted, i, files_left, snapshot_dir, net, hist>>

\* ------------------------------------------------------------------------
\* get_snapshot_slot (lines 193-285), run by the pool's threads
\* ------------------------------------------------------------------------
Candidate(address, diff, lat, files) ==
    [snapshot_address |-> address, slots_diff |-> diff, latency |-> lat,
     files_to_download |-> files]

\* (a changed copy of inc_too_slow: the latency is not looked at)
inc_never_too_slow(r) == FALSE

\* line 204: the incremental HEAD took longer than the maximum latency
inc_too_slow(r) == r.hasloc /\ r.lat > MAX_LATENCY_CONFIG

\* (a changed copy of base_is_local: no base counts as held locally)
base_never_local(local, incremental_base_slot) == FALSE

\* line 228: the incremental builds on the full snapshot held locally
base_is_local(local, incremental_base_slot) == local = incremental_base_slot

\* lines 203-251: what the incremental HEAD's response leads to.
\*   discard: count reason and return;  emit: append files and return;
\*   need_full: HEAD the full snapshot (line 238);  fall_through: line 255
classify_inc(r, cur, local) ==
    IF inc_too_slow(r)
       THEN [act |-> "discard", reason |-> "LATENCY", diff |-> 0]
    ELSE IF ~r.hasloc
       THEN [act |-> "fall_through", reason |-> None, diff |-> 0]
    ELSE IF endswith_tar(r.loc)
       THEN [act |-> "discard", reason |-> "ARCHIVE_TYPE", diff |-> 0]
    ELSE IF Len(r.loc) > 3
       THEN IF ~IsInt(r.loc[3]) \/ ~IsInt(r.loc[4])
               THEN [act |-> "fall_through", reason |-> None, diff |-> 0]
            ELSE LET incremental_base_slot == int(r.loc[3])
                     tip_snap_slot == int(r.loc[4])
                     slots_diff_tip == cur - tip_snap_slot
                 IN  IF slots_diff_tip < -FUTURE_SLOT_TOLERANCE
                        THEN [act |-> "discard", reason |-> "SLOT", diff |-> slots_diff_tip]
                     ELSE IF slots_diff_tip > MAX_SNAPSHOT_AGE_IN_SLOTS_CONFIG
                        THEN [act |-> "discard", reason |-> "SLOT", diff |-> slots_diff_tip]
                     ELSE IF base_is_local(local, incremental_base_slot)
                        THEN [act |-> "emit", reason |-> None, diff |-> slots_diff_tip]
                     ELSE [act |-> "need_full", reason |-> None, diff |-> slots_diff_tip]
    ELSE [act |-> "fall_through", reason |-> None, diff |-> 0]

\* (a changed copy of classify_full: a location whose fields do not parse is
\* emitted all the same)
classify_full_lenient(r, cur) ==
    IF ~r.hasloc
       THEN [act |-> "none", reasons |-> <<>>, diff |-> 0]
    ELSE IF endswith_tar(r.loc)
       THEN [act |-> "none", reasons |-> <<"ARCHIVE_TYPE">>, diff |-> 0]
    ELSE IF Len(r.loc) > 2 /\ IsInt(r.loc[2])
       THEN LET slots_diff_full == cur - int(r.loc[2])
            IN  IF slots_diff_full <= MAX_SNAPSHOT_AGE_IN_SLOTS_CONFIG
                       /\ r.lat <= MAX_LATENCY_CONFIG
                   THEN [act |-> "emit", reasons |-> <<>>, diff |-> slots_diff_full]
                   ELSE [act |-> "none", reasons |-> <<>>, diff |-> slots_diff_full]
    ELSE [act |-> "emit", reasons |-> <<>>, diff |-> 0]

\* lines 256-281: what the full HEAD's response leads to; reasons is the list
\* of counters lines 259 and 276-277 increment
classify_full(r, cur) ==
    IF ~r.hasloc
       THEN [act |-> "none", reasons |-> <<>>, diff |-> 0]
    ELSE IF endswith_tar(r.loc)
       THEN [act |-> "none", reasons |-> <<"ARCHIVE_TYPE">>, diff |-> 0]
    ELSE IF Len(r.loc) > 2
       THEN IF ~IsInt(r.loc[2])
               THEN [act |-> "none", reasons |-> <<>>, diff |-> 0]
            ELSE LET slots_diff_full == cur - int(r.loc[2])
                 IN  IF slots_diff_full <= MAX_SNAPSHOT_AGE_IN_SLOTS_CONFIG
                            /\ r.lat <= MAX_LATENCY_CONFIG
                        THEN [act |-> "emit", reasons |-> <<>>, diff |-> slots_diff_full]
                     ELSE [act |-> "none",
                           reasons |->
                               (IF slots_diff_full > MAX_SNAPSHOT_AGE_IN_SLOTS_CONFIG
                                   THEN <<"SLOT">> ELSE <<>>)
                               \o (IF r.lat > MAX_LATENCY_CONFIG
                                      THEN <<"LATENCY">> ELSE <<>>),
                           diff |-> slots_diff_full]
    ELSE [act |-> "none", reasons |-> <<>>, diff |-> 0]

\* the counter do_request increments for an error string (lines 129-135)
error_reason(r) == IF r.kind = "timeout" THEN <<"TIMEOUT">> ELSE <<"UNKNW_ERR">>

\* bookkeeping: the pool's threads have decided on these discard events
RECURSIVE note_events(_, _)
note_events(tally, reasons) ==
    IF reasons = <<>> THEN tally
    ELSE note_events([tally EXCEPT ![Head(reasons)] = @ + 1], Tail(reasons))

\* (a changed copy of emitted: no return after the append, the thread goes on
\* to the independent full HEAD)
emitted_goes_on(w) == [w EXCEPT !.pc = "full_head"]

\* lines 235, 246, 274: return None right after the append
emitted(w) == [w EXCEPT !.pc = "done", !.out = TRUE]

\* (a changed copy of list_append: the list is built anew around the element)
list_append_anew(list, x) == <<x>>

\* json_data["rpc_nodes"].append(...), lines 229, 240, 268: one call of
\* list.append, which no other thread's step can interleave with
list_append(list, x) == Append(list, x)

\* an answer to the incremental HEAD (or to the full HEAD made for it) that
\* the thread cannot use: an error string of do_request, or a location of
\* unexpected shape or with fields int() rejects (lines 215, 247-251)
inc_request_failed(r) ==
    \/ r.kind # "resp"
    \/ /\ r.hasloc
       /\ r.lat <= MAX_LATENCY_CONFIG
       /\ ~endswith_tar(r.loc)
       /\ (Len(r.loc) <= 3 \/ ~IsInt(r.loc[3]) \/ ~IsInt(r.loc[4]))

\* the same for the independent full HEAD (lines 263, 279-280)
full_request_failed(r) ==
    \/ r.kind # "resp"
    \/ /\ r.hasloc
       /\ ~endswith_tar(r.loc)
       /\ (Len(r.loc) <= 2 \/ ~IsInt(r.loc[2]))

\* bookkeeping of a failed request in the thread's record
note_failure(w, is_failure, how) == IF is_failure THEN [w EXCEPT !.failed = how] ELSE w

\* A thread that has to increment counters does so before it goes on
to_increment(w, reasons, after) ==
    IF reasons = <<>> THEN [w EXCEPT !.pc = after]
    ELSE [w EXCEPT !.pc = "incr", !.pend = reasons, !.after = after]

\* (a changed copy of after_discard: no return, the thread goes on to line 255)
after_discard_goes_on == "full_head"

\* `return None` after a discard of the incremental path (lines 206, 212,
\* 223, 226): where the thread is next
after_discard == "done"

\* lines 202-251: the incremental HEAD and what follows from its answer
WIncHead(p) ==
    /\ pc = "probing"
    /\ worker[p].pc = "inc_head"
    /\ \E r \in net.inc :
          LET w == note_failure(worker[p], inc_request_failed(r), "early")
              c == classify_inc(r, current_slot, FULL_LOCAL_SNAP_SLOT)
          IN  IF is_error(r)
                 THEN /\ worker' = [worker EXCEPT ![p] = to_increment(w, error_reason(r), "full_head")]
                      /\ hist' = [hist EXCEPT !.events = note_events(@, error_reason(r))]
                      /\ json_data' = json_data
              ELSE IF c.act = "discard"
                 THEN /\ worker' = [worker EXCEPT ![p] = to_increment(w, <<c.reason>>, after_discard)]
                      /\ hist' = [hist EXCEPT !.events = note_events(@, <<c.reason>>)]
                      /\ json_data' = json_data
              ELSE IF c.act = "emit"
                 THEN /\ json_data' = list_append(json_data, Candidate(p, c.diff, r.lat, <<r.loc>>))
                      /\ worker' = [worker EXCEPT ![p] = emitted(w)]
                      /\ hist' = hist
              ELSE IF c.act = "need_full"
                 THEN /\ worker' = [worker EXCEPT ![p] = [w EXCEPT !.pc = "full_for_inc", !.r_inc = r]]
                      /\ UNCHANGED <<json_data, hist>>
              ELSE /\ worker' = [worker EXCEPT ![p] = [w EXCEPT !.pc = "full_head"]]
                   /\ UNCHANGED <<json_data, hist>>
    /\ UNCHANGED <<pc, result, num_attempts_made, WITH_PRIVATE_RPC_CONFIG, current_slot,
                   DISCARDED, FULL_LOCAL_SNAP_SLOT, unsuitable_servers, rpc_nodes,
                   rpc_nodes_sorted, i, files_left, snapshot_dir, net>>

\* (a changed copy of both_files: the full reference is listed first)
both_files_full_first(inc_location, full_location) == <<full_location, inc_location>>

\* line 244: "files_to_download" of a candidate with both references
both_files(inc_location, full_location) == <<inc_location, full_location>>

\* lines 237-246: the full HEAD for an incremental whose base is not held
\* locally; without a location the thread goes on to line 255
WFullForInc(p) ==
    /\ pc = "probing"
    /\ worker[p].pc = "full_for_inc"
    /\ \E r \in net.full :
          LET w == note_failure(worker[p], r.kind # "resp", "early")
              c == classify_inc(w.r_inc, current_slot, FULL_LOCAL_SNAP_SLOT)
          IN  IF is_error(r)
                 THEN /\ worker' = [worker EXCEPT ![p] = to_increment(w, error_reason(r), "full_head")]
                      /\ hist' = [hist EXCEPT !.events = note_events(@, error_reason(r))]
                      /\ json_data' = json_data
              ELSE IF r.hasloc
                 THEN /\ json_data' = list_append(json_data,
                              Candidate(p, c.diff, w.r_inc.lat, both_files(w.r_inc.loc, r.loc)))
                      /\ worker' = [worker EXCEPT ![p] = emitted(w)]
                      /\ hist' = hist
              ELSE /\ worker' = [worker EXCEPT ![p] = [w EXCEPT !.pc = "full_head"]]
                   /\ UNCHANGED <<json_data, hist>>
    /\ UNCHANGED <<pc, result, num_attempts_made, WITH_PRIVATE_RPC_CONFIG, current_slot,
                   DISCARDED, FULL_LOCAL_SNAP_SLOT, unsuitable_servers, rpc_nodes,
                   rpc_nodes_sorted, i, files_left, snapshot_dir, net>>

\* lines 254-281: the independent full HEAD
WFullHead(p) ==
    /\ pc = "probing"
    /\ worker[p].pc = "full_head"
    /\ \E r \in net.full :
          LET w == note_failure(worker[p], full_request_failed(r), "final")
              c == classify_full(r, current_slot)
          IN  IF is_error(r)
                 THEN /\ worker' = [worker EXCEPT ![p] = to_increment(w, error_reason(r), "done")]
                      /\ hist' = [hist EXCEPT !.events = note_events(@, error_reason(r))]
                      /\ json_data' = json_data
              ELSE IF c.act = "emit"
                 THEN /\ json_data' = list_append(json_data, Candidate(p, c.diff, r.lat, <<r.loc>>))
                      /\ worker' = [worker EXCEPT ![p] = emitted(w)]
                      /\ hist' = hist
              ELSE /\ worker' = [worker EXCEPT ![p] = to_increment(w, c.reasons, "done")]
                   /\ hist' = [hist EXCEPT !.events = note_events(@, c.reasons)]
                   /\ json_data' = json_data
    /\ UNCHANGED <<pc, result, num_attempts_made, WITH_PRIVATE_RPC_CONFIG, current_slot,
                   DISCARDED, FULL_LOCAL_SNAP_SLOT, unsuitable_servers, rpc_nodes,
                   rpc_nodes_sorted, i, files_left, snapshot_dir, net>>

\* DISCARDED_BY_X += 1 in a pool thread is a read of the global ...
WLoad(p) ==
    /\ pc = "probing"
    /\ worker[p].pc = "incr"
    /\ worker[p].tmp = -1
    /\ worker' = [worker EXCEPT ![p].tmp = DISCARDED[Head(worker[p].pend)]]
    /\ UNCHANGED <<pc, result, num_attempts_made, WITH_PRIVATE_RPC_CONFIG, current_slot,
                   DISCARDED, FULL_LOCAL_SNAP_SLOT, unsuitable_servers, json_data,
                   rpc_nodes, rpc_nodes_sorted, i, files_left, snapshot_dir, net, hist>>

\* the value a thread writes back for the value it read
incremented(v) == v + 1

\* ... followed by a write of the sum; other threads run in between
WStore(p) ==
    /\ pc = "probing"
    /\ worker[p].pc = "incr"
    /\ worker[p].tmp # -1
    /\ LET w == worker[p]
           rest == Tail(w.pend)
       IN  /\ DISCARDED' = [DISCARDED EXCEPT ![Head(w.pend)] = incremented(w.tmp)]
           /\ worker' = [worker EXCEPT ![p] =
                  [w EXCEPT !.tmp = -1, !.pend = rest,
                            !.pc = IF rest = <<>> THEN w.after ELSE "incr"]]
    /\ UNCHANGED <<pc, result, num_attempts_made, WITH_PRIVATE_RPC_CONFIG, current_slot,
                   FULL_LOCAL_SNAP_SLOT, unsuitable_servers, json_data,
                   rpc_nodes, rpc_nodes_sorted, i, files_left, snapshot_dir, net, hist>>

\* ------------------------------------------------------------------------
\* Candidate Ranker (main_worker, line 371)
\* ------------------------------------------------------------------------
\* (a changed copy of insert_sorted: x goes before the elements of equal key)
RECURSIVE insert_sorted_before_equal(_, _)
insert_sorted_before_equal(sorted, x) ==
    IF sorted = <<>> THEN <<x>>
    ELSE IF Head(sorted).latency < x.latency
            THEN <<Head(sorted)>> \o insert_sorted_before_equal(Tail(sorted), x)
            ELSE <<x>> \o sorted

\* sorted(..., key=latency): a stable insertion of x behind every element
\* whose key is not larger
RECURSIVE insert_sorted(_, _)
insert_sorted(sorted, x) ==
    IF sorted = <<>> THEN <<x>>
    ELSE IF Head(sorted).latency <= x.latency
            THEN <<Head(sorted)>> \o insert_sorted(Tail(sorted), x)
            ELSE <<x>> \o sorted

RECURSIVE sorted_by_latency(_)
sorted_by_latency(list) ==
    IF list = <<>> THEN <<>>
    ELSE insert_sorted(sorted_by_latency(SubSeq(list, 1, Len(list) - 1)), list[Len(list)])

\* What open(..., "w") and json.dump of lines 382-387 meet: the file is
\* written, or IOError is raised and caught. The program never reads the
\* file; "untracked" stands for either in the specifications that do not
\* follow the file's content.
ReportWrites == {"ok", "io_error"}

\* lines 374-380: json_data after the update, as json.dump writes it
\* (last_update_at is time.time(), a moment of the attempt)
report_of(ranked, slot, scanned, attempt) ==
    [last_update_at |-> attempt,
     last_update_slot |-> slot,
     total_rpc_nodes_scanned |-> scanned,
     rpc_nodes_with_potential_snapshot |-> Len(ranked),
     rpc_nodes |-> ranked]

\* lines 382-387: the directory after the attempt to write the report
with_report(dir, report, outcome) ==
    IF outcome = "ok" THEN [dir EXCEPT !.report = report] ELSE dir

\* (a changed copy of no_candidates: a latency discard counts as no candidate)
no_candidates_or_discards(list) == list = <<>> \/ DISCARDED["LATENCY"] > 0

\* line 367: if not json_data.get("rpc_nodes")
no_candidates(list) == list = <<>>

\* lines 357-388: the pool has joined (its threads are gone); no candidate
\* ends the attempt with 1, else the candidates are ranked and the report
\* is written
JoinPool ==
    /\ pc = "probing"
    /\ \A p \in rpc_nodes : worker[p].pc = "done"
    /\ worker' = <<>>
    /\ IF no_candidates(json_data)
          THEN /\ pc' = "attempt_failed"
               /\ rpc_nodes' = {}
               /\ UNCHANGED <<rpc_nodes_sorted, json_data, i, snapshot_dir>>
          ELSE /\ rpc_nodes_sorted' = sorted_by_latency(json_data)
               /\ json_data' = sorted_by_latency(json_data)
               /\ i' = 1
               /\ pc' = "validate"
               /\ rpc_nodes' = rpc_nodes
               /\ \E outcome \in net.report_write :
                      snapshot_dir' =
                          with_report(snapshot_dir,
                                      report_of(sorted_by_latency(json_data), current_slot,
                                                Cardinality(rpc_nodes), num_attempts_made),
                                      outcome)
    /\ hist' = [hist EXCEPT !.pool_joined = TRUE]
    /\ UNCHANGED <<result, num_attempts_made, WITH_PRIVATE_RPC_CONFIG, current_slot,
                   DISCARDED, FULL_LOCAL_SNAP_SLOT, unsuitable_servers,
                   files_left, net>>

\* ------------------------------------------------------------------------
\* measure_speed (lines 70-106)
\* ------------------------------------------------------------------------
RECURSIVE insert_number(_, _)
insert_number(sorted, x) ==
    IF sorted = <<>> THEN <<x>>
    ELSE IF Head(sorted) <= x
            THEN <<Head(sorted)>> \o insert_number(Tail(sorted), x)
            ELSE <<x>> \o sorted

RECURSIVE sort_numbers(_)
sort_numbers(list) ==
    IF list = <<>> THEN <<>>
    ELSE insert_number(sort_numbers(Tail(list)), Head(list))

\* statistics.median of a non-empty list
median(list) ==
    LET s == sort_numbers(list)
        n == Len(s)
    IN  IF n % 2 = 1 THEN s[(n + 1) \div 2]
        ELSE (s[n \div 2] + s[n \div 2 + 1]) \div 2

\* Per-window estimates in bytes per second (all even, so that the mean of
\* two of them is a whole number): 2 MiB/s, one byte-pair under 60 MiB/s,
\* 60 MiB/s, 120 MiB/s
SampleValues == {2097152, 62914558, 62914560, 125829120}

\* What one measurement meets: the GET fails, the stream breaks, or the
\* loop ends with these samples
Measurements ==
    {[kind |-> k, speeds |-> <<>>] : k \in {"connfail", "exception"}}
        \cup {[kind |-> "samples", speeds |-> q] : q \in SeqsUpTo(SampleValues, MaxSamples)}

measure_speed(m) ==
    IF m.kind # "samples" THEN 0
    ELSE IF m.speeds = <<>> THEN 0
    ELSE median(m.speeds)

\* (a changed copy of too_slow: megabytes of 10^6 bytes)
too_slow_decimal(down_speed_bytes) ==
    \/ down_speed_bytes = 0
    \/ down_speed_bytes < MIN_DOWNLOAD_SPEED_MB_CONFIG * 1000 * 1000

\* lines 404 and 412: the speed does not clear the minimum
too_slow(down_speed_bytes) ==
    \/ down_speed_bytes = 0
    \/ down_speed_bytes < MIN_DOWNLOAD_SPEED_MB_CONFIG * 1024 * 1024

\* ------------------------------------------------------------------------
\* Bandwidth Validator (main_worker, lines 390-419, 494-495)
\* ------------------------------------------------------------------------
\* (a changed copy of reversed: the list is taken in the order it has)
not_reversed(list) == list

\* reversed(files_to_download), line 420
RECURSIVE reversed(_)
reversed(list) ==
    IF list = <<>> THEN <<>> ELSE Append(reversed(Tail(list)), Head(list))

\* (a changed copy of speed_check_limit: the whole ranked list is walked)
speed_check_whole_list == Len(rpc_nodes_sorted)

\* rpc_nodes_sorted[:num_of_rpc_to_check_speed], line 393: the last index
\* the loop reaches
speed_check_limit ==
    IF Len(rpc_nodes_sorted) < num_of_rpc_to_check_speed
       THEN Len(rpc_nodes_sorted) ELSE num_of_rpc_to_check_speed

\* bookkeeping: the measurement produced samples whose median is at least
\* 60 MiB/s
at_least_minimum(m) ==
    /\ m.kind = "samples"
    /\ m.speeds # <<>>
    /\ median(m.speeds) >= 62914560

\* one pass of the for loop up to the download loop
CheckSpeed ==
    /\ pc = "validate"
    /\ i <= speed_check_limit
    /\ LET rpc_node_info == rpc_nodes_sorted[i]
           snapshot_address == rpc_node_info.snapshot_address
       IN  IF snapshot_address \in unsuitable_servers
              THEN /\ i' = i + 1
                   /\ hist' = [hist EXCEPT !.refs = <<>>]
                   /\ UNCHANGED <<pc, unsuitable_servers, files_left>>
              ELSE \E m \in Measurements :
                      IF too_slow(measure_speed(m))
                         THEN /\ unsuitable_servers' = unsuitable_servers \cup {snapshot_address}
                              /\ i' = i + 1
                              /\ hist' = [hist EXCEPT !.measured = Append(@, snapshot_address),
                                                      !.cleared = Append(@, at_least_minimum(m)),
                                                      !.refs = <<>>]
                              /\ UNCHANGED <<pc, files_left>>
                         ELSE /\ files_left' = reversed(rpc_node_info.files_to_download)
                              /\ pc' = "download"
                              /\ hist' = [hist EXCEPT !.measured = Append(@, snapshot_address),
                                                      !.cleared = Append(@, at_least_minimum(m)),
                                                      !.accepted = Append(@, snapshot_address),
                                                      !.refs = <<>>]
                              /\ UNCHANGED <<i, unsuitable_servers>>
    /\ UNCHANGED <<result, num_attempts_made, WITH_PRIVATE_RPC_CONFIG, current_slot,
                   DISCARDED, FULL_LOCAL_SNAP_SLOT, json_data, rpc_nodes, worker,
                   rpc_nodes_sorted, snapshot_dir, net>>

\* lines 494-495: the loop has run out of candidates; main_worker returns 1
\* and its local variables are gone
NoSuitableServer ==
    /\ pc = "validate"
    /\ i > speed_check_limit
    /\ pc' = "attempt_failed"
    /\ rpc_nodes' = {}
    /\ rpc_nodes_sorted' = <<>>
    /\ i' = 0
    /\ hist' = [hist EXCEPT !.refs = <<>>]
    /\ UNCHANGED <<result, num_attempts_made, WITH_PRIVATE_RPC_CONFIG, current_slot,
                   DISCARDED, FULL_LOCAL_SNAP_SLOT, unsuitable_servers, json_data,
                   worker, files_left, snapshot_dir, net>>

\* ------------------------------------------------------------------------
\* Download Orchestrator (main_worker, lines 420-492, with download)
\* ------------------------------------------------------------------------
\* (a changed copy of skip_download: nothing is skipped)
skip_never(f, local) == FALSE

\* lines 426-432: a full snapshot of the slot held locally is not fetched
skip_download(f, local) ==
    LET name == PathName(f)
    IN  startswith_snapshot(name) /\ IsInt(name[2]) /\ int(name[2]) = local

\* lines 448-457: may the freshly advertised incremental replace the probed one
can_use_fresh_location(fresh, local) ==
    IF local > 0
       THEN LET name == PathName(fresh)
            IN  Len(name) >= 3 /\ IsInt(name[3]) /\ int(name[3]) = local
       ELSE TRUE

\* lines 437-465: the location the transfer is made from, r being the answer
\* to the fresh HEAD of an incremental reference
download_location(f, r, local) ==
    IF has_incremental_snapshot(PathName(f)) /\ ~is_error(r) /\ r.hasloc
            /\ can_use_fresh_location(r.loc, local)
       THEN r.loc
       ELSE f

\* glob 'snapshot-*tar*'
is_full_snapshot_file(name) ==
    /\ startswith_snapshot(name)
    /\ \E k \in 2..Len(name) : name[k] \in {"h.tar", "h.tar.zst", "h.tar.bz2"}

\* What a transfer meets: wget exits 0 and the rename works; wget exits
\* non-zero for a network reason; wget exits non-zero because the disk is
\* full; the rename is refused (permission denied)
WgetOutcomes == {"ok", "wget_failed", "disk_full", "rename_denied"}
ResourceErrors == {"disk_full", "rename_denied"}

\* line 291: temp_fname, 'tmp-' before the name
temp_name(fname) == <<"tmp">> \o fname

\* The modification time of a file wget has written is the server's
\* Last-Modified or, without that header, the time of the transfer;
\* os.rename keeps it. "newest": it is later than the time of every file the
\* directory held before the run; "older": it is earlier than the time of
\* the full snapshot the directory held before the run.
Stamps == {"newest", "older"}

\* os.path.getmtime as the sort of line 341 sees it: does a file just
\* transferred come before the full snapshot that was the newest so far
newer_than_held(dir) ==
    \/ net.stamp = "newest"
    \/ dir.newest_full = <<>>
    \/ dir.newest_full \in dir.created

\* os.rename(temp_fname, final_fname), lines 303-307: the file is in the
\* directory under its final name, with the modification time wget gave it
with_file(dir, fname) ==
    [dir EXCEPT !.created = @ \cup {fname},
                !.tmp = @ \ {temp_name(fname)},
                !.newest_full = IF is_full_snapshot_file(fname) /\ newer_than_held(dir)
                                   THEN fname ELSE @]

\* lines 311-312 and 317-318: the temporary file is removed
without_temp(dir, fname) == [dir EXCEPT !.tmp = @ \ {temp_name(fname)}]

\* wget -O temp_fname (line 294): what is received goes to the temporary file
wget_writes(dir, fname) == [dir EXCEPT !.tmp = @ \cup {temp_name(fname)}]

\* (a changed copy of download: wget writes to the final name, nothing is
\* renamed or removed)
download_in_place(dir, fname, outcome) ==
    [ok |-> outcome = "ok",
     dir |-> [dir EXCEPT !.created = @ \cup {fname},
                           !.newest_full = IF is_full_snapshot_file(fname) THEN fname ELSE @]]

\* (a changed copy of download: True is returned whatever wget and the
\* rename did)
download_reports_success(dir, fname, outcome) ==
    [ok |-> TRUE,
     dir |-> IF outcome = "ok"
                THEN with_file(wget_writes(dir, fname), fname)
                ELSE without_temp(wget_writes(dir, fname), fname)]

\* download() (lines 288-319), wget having ended: success and the
\* directory afterwards
download(dir, fname, outcome) ==
    LET received == wget_writes(dir, fname)
    IN  IF outcome = "ok"
           THEN [ok |-> TRUE, dir |-> with_file(received, fname)]
           ELSE [ok |-> FALSE, dir |-> without_temp(received, fname)]

\* (a changed copy of updated_local_slot: the cached height is never updated)
kept_local_slot(f, fname, local) == local

\* lines 475-485: the cached local height after a transfer
updated_local_slot(f, fname, local) ==
    IF startswith_snapshot(PathName(f)) /\ Len(fname) >= 2 /\ IsInt(fname[2])
       THEN int(fname[2])
       ELSE local

\* (a changed copy of DownloadFailed: no break, the next reference is tried)
DownloadFailedGoesOn ==
    /\ files_left' = Tail(files_left)
    /\ pc' = "download"
    /\ UNCHANGED <<i, FULL_LOCAL_SNAP_SLOT>>

\* lines 469-472 and 487-492: a failed transfer ends the loop over the
\* peer's references (break); the speed-check loop goes on with the next
\* candidate
DownloadFailed ==
    /\ files_left' = <<>>
    /\ i' = i + 1
    /\ pc' = "validate"
    /\ UNCHANGED FULL_LOCAL_SNAP_SLOT

\* line 290 read backwards: the final name of a temporary file
final_name(temp) == Tail(temp)

\* one pass of the loop over reversed(files_to_download), up to the start of
\* wget (lines 420-468, 288-301)
DownloadRef ==
    /\ pc = "download"
    /\ files_left # <<>>
    /\ LET f == Head(files_left)
           refresh == has_incremental_snapshot(PathName(f))
       IN  IF skip_download(f, FULL_LOCAL_SNAP_SLOT)
              THEN /\ files_left' = Tail(files_left)
                   /\ hist' = [hist EXCEPT !.refs = Append(@, [how |-> "skipped", name |-> PathName(f)])]
                   /\ UNCHANGED <<pc, i, DISCARDED, FULL_LOCAL_SNAP_SLOT, snapshot_dir>>
              ELSE \E r \in (IF refresh THEN net.inc ELSE {NoLocation}) :
                      LET fname == PathName(download_location(f, r, FULL_LOCAL_SNAP_SLOT))
                      IN  /\ DISCARDED' = IF refresh THEN count_error(DISCARDED, r) ELSE DISCARDED
                          /\ snapshot_dir' = wget_writes(snapshot_dir, fname)
                          /\ pc' = "wget"
                          /\ UNCHANGED <<i, files_left, FULL_LOCAL_SNAP_SLOT, hist>>
    /\ UNCHANGED <<result, num_attempts_made, WITH_PRIVATE_RPC_CONFIG, current_slot,
                   unsuitable_servers, json_data, rpc_nodes, worker,
                   rpc_nodes_sorted, net>>

\* wget has ended: the rest of download (lines 303-319) and of the pass
\* (lines 469-485)
WgetEnds ==
    /\ pc = "wget"
    /\ \E outcome \in net.wget :
          LET f == Head(files_left)
              fname == final_name(CHOOSE t \in snapshot_dir.tmp : TRUE)
              d == download(snapshot_dir, fname, outcome)
              address == rpc_nodes_sorted[i].snapshot_address
          IN  /\ snapshot_dir' = d.dir
              /\ hist' = [hist EXCEPT
                             !.refs = Append(@, [how |-> outcome, name |-> fname]),
                             !.failed_dl = IF d.ok THEN @ ELSE @ \cup {address}]
              /\ IF d.ok
                    THEN /\ FULL_LOCAL_SNAP_SLOT' =
                                updated_local_slot(f, fname, FULL_LOCAL_SNAP_SLOT)
                         /\ files_left' = Tail(files_left)
                         /\ pc' = "download"
                         /\ UNCHANGED i
                    ELSE DownloadFailed
    /\ UNCHANGED <<result, num_attempts_made, WITH_PRIVATE_RPC_CONFIG, current_slot,
                   DISCARDED, unsuitable_servers, json_data, rpc_nodes, worker,
                   rpc_nodes_sorted, net>>

\* (a changed copy of AllDownloaded: the result of main_worker is taken for
\* a failure once the success is reported)
AllDownloadedFallsThrough ==
    /\ pc = "download"
    /\ files_left = <<>>
    /\ result' = "True"
    /\ pc' = "attempt_failed"
    /\ UNCHANGED <<num_attempts_made, WITH_PRIVATE_RPC_CONFIG, current_slot,
                   DISCARDED, FULL_LOCAL_SNAP_SLOT, unsuitable_servers, json_data,
                   rpc_nodes, worker, rpc_nodes_sorted, i, files_left,
                   snapshot_dir, net, hist>>

\* lines 487-489 and 652-655: every reference went through; main_worker
\* returns 0 and run_snap_finder returns True
AllDownloaded ==
    /\ pc = "download"
    /\ files_left = <<>>
    /\ result' = "True"
    /\ pc' = "done"
    /\ UNCHANGED <<num_attempts_made, WITH_PRIVATE_RPC_CONFIG, current_slot,
                   DISCARDED, FULL_LOCAL_SNAP_SLOT, unsuitable_servers, json_data,
                   rpc_nodes, worker, rpc_nodes_sorted, i, files_left,
                   snapshot_dir, net, hist>>

\* ------------------------------------------------------------------------
\* The network of the main specification
\* ------------------------------------------------------------------------
IncAnswers ==
    {TimeoutErr, NoLocation,
     Resp(IncLoc("2000", "2950"), 40),
     Resp(IncLoc("0", "2950"), 40),
     Resp(IncLoc("2900", "2990"), 100),
     Resp(IncLoc("2900", "2990"), 101),
     Resp(IncLoc("2000", "1000"), 40)}

FullAnswers ==
    {TimeoutErr, NoLocation,
     Resp(FullLoc("2900"), 40),
     Resp(FullLoc("1000"), 101)}

Init ==
    /\ InitCommon
    /\ net = [inc |-> IncAnswers, full |-> FullAnswers, wget |-> WgetOutcomes,
              directory |-> DirectoryAnswers, stamp |-> "newest",
              version_filter |-> NoFilter,
              report_write |-> {"untracked"}]

Probe ==
    \E p \in rpc_nodes :
        WIncHead(p) \/ WFullForInc(p) \/ WFullHead(p) \/ WLoad(p) \/ WStore(p)

Next ==
    \/ Setup
    \/ BeginAttempt
    \/ GetCurrentSlot
    \/ GetAllRpcIps
    \/ InspectLocal
    \/ Probe
    \/ JoinPool
    \/ CheckSpeed
    \/ NoSuitableServer
    \/ DownloadRef
    \/ WgetEnds
    \/ AllDownloaded
    \/ AttemptFailed
    \/ Sleep

Spec == Init /\ [][Next]_vars
\* ------------------------------------------------------------------------
\* The probe stage on its own, against a network that answers with every
\* shape of redirect: one attempt up to the joined pool
\* ------------------------------------------------------------------------
ProbeIncAnswers ==
    {TimeoutErr, UnknownErr, NoLocation,
     Resp(IncLoc("2000", "2950"), 40),
     Resp(IncLoc("0", "2950"), 40),
     Resp(IncLoc("2900", "2990"), 100),
     Resp(IncLoc("2900", "2990"), 101),
     Resp(IncLoc("2900", "1700"), 40),
     Resp(IncLoc("2000", "1000"), 40),
     Resp(IncLoc("2900", "3100"), 40),
     Resp(IncLoc("2000", "3101"), 40),
     Resp(<<"/incremental", "snapshot", "2000", "2950", "h.tar">>, 40),
     Resp(<<"/incremental", "snapshot", "2000", "2950", "h.tar">>, 101),
     Resp(<<"/incremental", "snapshot", "x", "2950", "h.tar.zst">>, 40),
     Resp(FullLoc("2900"), 40)}

ProbeFullAnswers ==
    {TimeoutErr, UnknownErr, NoLocation,
     Resp(FullLoc("2900"), 40),
     Resp(FullLoc("1700"), 100),
     Resp(FullLoc("1000"), 40),
     Resp(FullLoc("1000"), 101),
     Resp(FullLoc("2900"), 101),
     Resp(FullLoc("3200"), 40),
     Resp(<<"/snapshot", "2900", "h.tar">>, 40),
     Resp(FullLoc("x"), 40),
     Resp(<<"/snapshot">>, 40)}

InitProbe ==
    /\ InitCommon
    /\ net = [inc |-> ProbeIncAnswers, full |-> ProbeFullAnswers, wget |-> WgetOutcomes,
              directory |-> DirectoryAnswers, stamp |-> "newest",
              version_filter |-> NoFilter,
              report_write |-> {"untracked"}]

NextProbe ==
    \/ Setup
    \/ BeginAttempt
    \/ GetCurrentSlot
    \/ GetAllRpcIps
    \/ InspectLocal
    \/ Probe
    \/ JoinPool

SpecProbe == InitProbe /\ [][NextProbe]_vars

\* ------------------------------------------------------------------------
\* The ranker on its own: the pool of three peers has finished and has left
\* any list of at most MaxRanked candidates, in any order of arrival
\* ------------------------------------------------------------------------
RankPeers == {Addr("a", 8899), Addr("b", 8899), Addr("c", 8899)}

RankCandidates ==
    {Candidate(p, 50, lat, <<FullLoc("2950")>>) : p \in RankPeers, lat \in {40, 70, 100}}

RankLists ==
    {l \in SeqsUpTo(RankCandidates, MaxRanked) :
        \A j, k \in 1..Len(l) : l[j].snapshot_address = l[k].snapshot_address => j = k}

InitRank ==
    /\ pc = "probing"
    /\ result = None
    /\ num_attempts_made = 1
    /\ WITH_PRIVATE_RPC_CONFIG = FALSE
    /\ current_slot = 3000
    /\ DISCARDED = ZeroTally
    /\ FULL_LOCAL_SNAP_SLOT = 0
    /\ unsuitable_servers = {}
    /\ json_data \in RankLists
    /\ rpc_nodes = RankPeers
    /\ worker = [p \in RankPeers |->
                    [NewWorker EXCEPT !.pc = "done",
                                      !.out = \E k \in 1..Len(json_data) :
                                                  json_data[k].snapshot_address = p]]
    /\ rpc_nodes_sorted = <<>>
    /\ i = 0
    /\ files_left = <<>>
    /\ snapshot_dir = Directory(<<>>)
    /\ net = [inc |-> {}, full |-> {}, wget |-> {}, directory |-> {}, stamp |-> "newest",
              version_filter |-> NoFilter,
              report_write |-> {"untracked"}]
    /\ hist = NoHist

NextRank == JoinPool

SpecRank == InitRank /\ [][NextRank]_vars

\* ------------------------------------------------------------------------
\* The run against an RPC endpoint that gives one and the same answer to
\* every getClusterNodes call
\* ------------------------------------------------------------------------
ScanIncAnswers == {TimeoutErr, Resp(IncLoc("2900", "2990"), 40)}

ScanFullAnswers == {NoLocation, Resp(FullLoc("2900"), 40)}

InitScan ==
    /\ InitCommon
    /\ \E a \in DirectoryAnswers :
          net = [inc |-> ScanIncAnswers, full |-> ScanFullAnswers,
                 wget |-> WgetOutcomes, directory |-> {a}, stamp |-> "newest",
              version_filter |-> NoFilter,
              report_write |-> {"untracked"}]

NextScan == Next

SpecScan == InitScan /\ [][NextScan]_vars

\* ------------------------------------------------------------------------
\* The run with either order of modification times between the files wget
\* writes and the full snapshot the directory held before
\* ------------------------------------------------------------------------
InitStamp ==
    /\ InitCommon
    /\ \E a \in DirectoryAnswers, st \in Stamps :
          net = [inc |-> ScanIncAnswers, full |-> ScanFullAnswers,
                 wget |-> WgetOutcomes, directory |-> {a}, stamp |-> st,
                 version_filter |-> NoFilter,
              report_write |-> {"untracked"}]

NextStamp == Next

SpecStamp == InitStamp /\ [][NextStamp]_vars

\* ------------------------------------------------------------------------
\* The attempt from the joined pool on, with more candidates than the
\* speed check takes: CapSize peers have each left a candidate
\* ------------------------------------------------------------------------
CapSize == 16

CapHosts == <<"n01", "n02", "n03", "n04", "n05", "n06", "n07", "n08",
              "n09", "n10", "n11", "n12", "n13", "n14", "n15", "n16">>

CapPeers == {Addr(CapHosts[k], 8899) : k \in 1..CapSize}

\* the candidate of the k-th peer
CapCandidate(k) == Candidate(Addr(CapHosts[k], 8899), 50, 20 + k, <<FullLoc("2950")>>)

\* the candidates in two orders of arrival: by rising and by falling latency
CapArrivals ==
    {[k \in 1..CapSize |-> CapCandidate(k)],
     [k \in 1..CapSize |-> CapCandidate(CapSize + 1 - k)]}

InitCap ==
    /\ pc = "probing"
    /\ result = None
    /\ num_attempts_made = 1
    /\ WITH_PRIVATE_RPC_CONFIG = FALSE
    /\ current_slot = 3000
    /\ DISCARDED = ZeroTally
    /\ FULL_LOCAL_SNAP_SLOT = 0
    /\ unsuitable_servers = {}
    /\ json_data \in CapArrivals
    /\ rpc_nodes = CapPeers
    /\ worker = [p \in CapPeers |-> [NewWorker EXCEPT !.pc = "done", !.out = TRUE]]
    /\ rpc_nodes_sorted = <<>>
    /\ i = 0
    /\ files_left = <<>>
    /\ snapshot_dir = Directory(<<>>)
    /\ net = [inc |-> {}, full |-> {}, wget |-> {"ok", "wget_failed"},
              directory |-> {}, stamp |-> "newest",
              version_filter |-> NoFilter,
              report_write |-> {"untracked"}]
    /\ hist = NoHist

NextCap ==
    \/ JoinPool
    \/ CheckSpeed
    \/ NoSuitableServer
    \/ DownloadRef
    \/ WgetEnds
    \/ AllDownloaded

SpecCap == InitCap /\ [][NextCap]_vars

\* ------------------------------------------------------------------------
\* get_all_rpc_ips on its own, called by main_worker with a version filter
\* in the module globals
\* ------------------------------------------------------------------------
NoVersionA == [rpc |-> Addr("a", 8899), gossip |-> Addr("a", 8001), version |-> None]
NonStringA == [rpc |-> Addr("a", 8899), gossip |-> Addr("a", 8001), version |-> NonString]

FilterNodes == Nodes \cup {NoVersionA, NonStringA}

FilterConfigs ==
    {[wildcard |-> "2.", specific |-> None],
     [wildcard |-> "2.1", specific |-> None],
     [wildcard |-> None, specific |-> "2.1"]}

InitFilter ==
    /\ pc = "get_ips"
    /\ result = None
    /\ num_attempts_made = 1
    /\ WITH_PRIVATE_RPC_CONFIG \in BOOLEAN
    /\ current_slot = 3000
    /\ DISCARDED = ZeroTally
    /\ FULL_LOCAL_SNAP_SLOT = 0
    /\ unsuitable_servers = {}
    /\ json_data = <<>>
    /\ rpc_nodes = {}
    /\ worker = <<>>
    /\ rpc_nodes_sorted = <<>>
    /\ i = 0
    /\ files_left = <<>>
    /\ snapshot_dir = Directory(<<>>)
    /\ \E l \in SeqsUpTo(FilterNodes, MaxListing), c \in FilterConfigs :
          net = [inc |-> {}, full |-> {}, wget |-> {},
                 directory |-> {[kind |-> "ok", listing |-> l]},
                 stamp |-> "newest", version_filter |-> c,
                 report_write |-> {"untracked"}]
    /\ hist = NoHist

NextFilter == GetAllRpcIps

SpecFilter == InitFilter /\ [][NextFilter]_vars

\* ------------------------------------------------------------------------
\* The run with the content of snapshot_info.json followed, against an
\* endpoint that lists the two public peers
\* ------------------------------------------------------------------------
InitReport ==
    /\ InitCommon
    /\ net = [inc |-> ScanIncAnswers, full |-> ScanFullAnswers,
              wget |-> WgetOutcomes,
              directory |-> {[kind |-> "ok", listing |-> <<PublicA, PublicB>>]},
              stamp |-> "newest", version_filter |-> NoFilter,
              report_write |-> ReportWrites]

NextReport == Next

SpecReport == InitReport /\ [][NextReport]_vars

\* ------------------------------------------------------------------------
\* The run with the discard counters disturbed: at any moment the six
\* counters may take other values, everything else staying as it is
\* ------------------------------------------------------------------------
DisturbedTallies == {ZeroTally, [r \in Reasons |-> 1]}

Disturb ==
    /\ pc # "done"
    /\ \E t \in DisturbedTallies :
          /\ t # DISCARDED
          /\ DISCARDED' = t
    /\ UNCHANGED <<pc, result, num_attempts_made, WITH_PRIVATE_RPC_CONFIG, current_slot,
                   FULL_LOCAL_SNAP_SLOT, unsuitable_servers, json_data, rpc_nodes,
                   worker, rpc_nodes_sorted, i, files_left, snapshot_dir, net, hist>>

InitTally ==
    /\ InitCommon
    /\ net = [inc |-> ScanIncAnswers, full |-> ScanFullAnswers,
              wget |-> {"ok", "wget_failed"},
              directory |-> {[kind |-> "ok", listing |-> <<PublicA>>]},
              stamp |-> "newest", version_filter |-> NoFilter,
              report_write |-> {"untracked"}]

NextTally == Next \/ Disturb

SpecTally == InitTally /\ [][NextTally]_vars

\* ------------------------------------------------------------------------
\* run_snap_finder from its call on: the argument, the configuration, the
\* confirmation and the environment checks come before the retry loop
\* ------------------------------------------------------------------------
EndOfFile == "<EOF>"

ClusterArgs == {"um", "ut", "mainnet"}

\* what input() returns (or EOFError)
ConfirmAnswers == {"y", "Y", " y ", "n", "yes", "", EndOfFile}

\* input(...).strip().lower(), line 584, for the answers of the model
strip_lower(answer) ==
    CASE answer \in {"y", "Y", " y "} -> "y"
      [] OTHER -> answer

\* lines 515-529: the cluster argument is 'um' or 'ut'
valid_cluster(cluster_arg) == cluster_arg \in {"um", "ut"}

\* lines 583-592: the answer is 'y'; anything else, and end of file, ends
\* the run
user_confirmed(answer) == answer # EndOfFile /\ strip_lower(answer) = "y"

\* (a changed copy of write_test_failed: the result of the test is not used)
write_test_ignored(writable) == FALSE

\* lines 600-607: mkdir, write and remove of the test file raise IOError
write_test_failed(writable) == ~writable

\* what run_snap_finder is called with and finds
Entries ==
    [cluster_arg : ClusterArgs, configured : BOOLEAN, answer : ConfirmAnswers,
     writable : BOOLEAN, wget_found : BOOLEAN]

\* lines 513-612: the checks before the loop; the first that fails returns
\* False
CheckEntry ==
    /\ pc = "entry"
    /\ IF \/ ~valid_cluster(net.entry.cluster_arg)
          \/ ~net.entry.configured
          \/ ~user_confirmed(net.entry.answer)
          \/ write_test_failed(net.entry.writable)
          \/ ~net.entry.wget_found
          THEN pc' = "done" /\ result' = "False"
          ELSE pc' = "start" /\ result' = result
    /\ UNCHANGED <<num_attempts_made, WITH_PRIVATE_RPC_CONFIG, current_slot,
                   DISCARDED, FULL_LOCAL_SNAP_SLOT, unsuitable_servers, json_data,
                   rpc_nodes, worker, rpc_nodes_sorted, i, files_left,
                   snapshot_dir, net, hist>>

InitEntry ==
    /\ pc = "entry"
    /\ result = None
    /\ num_attempts_made = 0
    /\ WITH_PRIVATE_RPC_CONFIG = FALSE
    /\ current_slot = 0
    /\ DISCARDED = ZeroTally
    /\ FULL_LOCAL_SNAP_SLOT = 0
    /\ unsuitable_servers = {}
    /\ json_data = <<>>
    /\ rpc_nodes = {}
    /\ worker = <<>>
    /\ rpc_nodes_sorted = <<>>
    /\ i = 0
    /\ files_left = <<>>
    /\ snapshot_dir = Directory(<<>>)
    /\ \E e \in Entries :
          net = [inc |-> ScanIncAnswers, full |-> ScanFullAnswers,
                 wget |-> {"ok", "wget_failed"},
                 directory |-> {[kind |-> "ok", listing |-> <<PublicA>>]},
                 stamp |-> "newest", version_filter |-> NoFilter,
                 report_write |-> {"untracked"}, entry |-> e]
    /\ hist = NoHist

NextEntry == CheckEntry \/ Next

SpecEntry == InitEntry /\ [][NextEntry]_vars

\* ------------------------------------------------------------------------
\* The scan against peers that all give one and the same answer to the
\* incremental HEAD
\* ------------------------------------------------------------------------
OneIncFullAnswers ==
    {NoLocation, Resp(FullLoc("2900"), 40), Resp(FullLoc("2900"), 101)}

InitOneInc ==
    /\ InitCommon
    /\ \E r \in ProbeIncAnswers :
          net = [inc |-> {r}, full |-> OneIncFullAnswers,
                 wget |-> WgetOutcomes, directory |-> DirectoryAnswers,
                 stamp |-> "newest",
              version_filter |-> NoFilter,
              report_write |-> {"untracked"}]

NextOneInc == NextProbe

SpecOneInc == InitOneInc /\ [][NextOneInc]_vars

\* ------------------------------------------------------------------------
\* The run with a user interrupt
\* ------------------------------------------------------------------------
\* the positions inside main_worker, whose KeyboardInterrupt is re-raised at
\* lines 497-500 and caught at 645-649
InMainWorker == pc \in {"get_ips", "inspect", "probing", "validate", "download", "wget"}

\* A KeyboardInterrupt reaches the main thread. Inside main_worker it ends
\* the run with False; at the loop head, in get_current_slot (its handler is
\* `except Exception`, lines 149-151) and in time.sleep (641, 665) nothing
\* catches it and run_snap_finder is left by the exception. download()
\* catches Exception only (315), so the file wget was writing stays. The
\* frames of main_worker and of the pool are unwound: their locals are gone.
Interrupt ==
    /\ pc \in {"loop", "get_slot", "attempt_failed", "sleep"} \/ InMainWorker
    /\ pc' = "done"
    /\ result' = IF InMainWorker THEN "False" ELSE "KeyboardInterrupt"
    /\ hist' = [hist EXCEPT !.interrupted = TRUE]
    /\ rpc_nodes' = {}
    /\ worker' = <<>>
    /\ rpc_nodes_sorted' = <<>>
    /\ i' = 0
    /\ files_left' = <<>>
    /\ UNCHANGED <<num_attempts_made, WITH_PRIVATE_RPC_CONFIG, current_slot,
                   DISCARDED, FULL_LOCAL_SNAP_SLOT, unsuitable_servers, json_data,
                   snapshot_dir, net>>

NextInterrupt == Next \/ Interrupt

SpecInterrupt == Init /\ [][NextInterrupt]_vars

\* ========================================================================
\* Properties
\* ========================================================================
Last(q) == q[Len(q)]
Range(q) == {q[k] : k \in 1..Len(q)}
InAttempt == pc \in {"get_slot", "get_ips", "inspect", "probing", "validate",
                     "download", "wget", "attempt_failed"}

\* C1: a run without success makes exactly NUM_OF_MAX_ATTEMPTS attempts,
\* sleeps once between two consecutive attempts and not after the last one,
\* and then returns False; no run starts more than NUM_OF_MAX_ATTEMPTS
\* attempts, and the run can always go on until it has returned.
ThmC1 ==
    /\ num_attempts_made <= NUM_OF_MAX_ATTEMPTS
    /\ pc = "loop" => hist.sleeps = num_attempts_made
    /\ InAttempt => hist.sleeps = num_attempts_made - 1
    /\ pc = "sleep" => /\ hist.sleeps = num_attempts_made - 1
                       /\ num_attempts_made < NUM_OF_MAX_ATTEMPTS
    /\ pc = "done" => /\ result \in {"True", "False"}
                      /\ hist.sleeps = num_attempts_made - 1
                      /\ result = "False" => num_attempts_made = NUM_OF_MAX_ATTEMPTS
    /\ pc # "done" => result = None /\ ENABLED Next

\* a run that has failed after five attempts and four sleeps
WitC1 ==
    /\ pc = "done"
    /\ result = "False"
    /\ num_attempts_made = 5
    /\ hist.sleeps = 4

ThmC3 ==
    /\ [](((pc = "loop" /\ num_attempts_made = 0)
              \/ (pc = "get_slot" /\ num_attempts_made = 1))
           => ~WITH_PRIVATE_RPC_CONFIG)
    /\ [][(pc # "start" /\ WITH_PRIVATE_RPC_CONFIG) => WITH_PRIVATE_RPC_CONFIG']_vars

\* the flag, set in an earlier attempt, has outlived a per-attempt reset
WitC3 ==
    /\ pc = "get_slot"
    /\ num_attempts_made >= 2
    /\ WITH_PRIVATE_RPC_CONFIG
    /\ DISCARDED = ZeroTally

ThmC5 ==
    result = "True" =>
        /\ pc = "done"
        /\ ~ENABLED Next
        /\ files_left = <<>>
        /\ Last(hist.measured) = Last(hist.accepted)
        /\ Last(hist.accepted) \notin hist.failed_dl
        /\ Last(hist.accepted) = rpc_nodes_sorted[i].snapshot_address
        /\ hist.sleeps = num_attempts_made - 1
        /\ WITH_PRIVATE_RPC_CONFIG <=> hist.worker_failed

\* success on the first of two ranked candidates in a first attempt
WitC5 ==
    /\ result = "True"
    /\ num_attempts_made = 1
    /\ Len(rpc_nodes_sorted) = 2
    /\ i = 1
    /\ ~WITH_PRIVATE_RPC_CONFIG

\* a candidate that carries only an incremental reference
incremental_only(c) ==
    /\ Len(c.files_to_download) = 1
    /\ has_incremental_snapshot(PathName(c.files_to_download[1]))

\* C6: an incremental-only candidate has the local full snapshot's slot as
\* its base, and there is none while no full snapshot is held locally.
CexC6 ==
    pc = "probing" =>
        \A k \in 1..Len(json_data) :
            incremental_only(json_data[k]) =>
                /\ int(json_data[k].files_to_download[1][3]) = FULL_LOCAL_SNAP_SLOT
                /\ FULL_LOCAL_SNAP_SLOT # 0

\* C7: every candidate of the list is within the maximum age and the maximum
\* latency.
ThmC7 ==
    \A k \in 1..Len(json_data) :
        /\ json_data[k].slots_diff <= MAX_SNAPSHOT_AGE_IN_SLOTS_CONFIG
        /\ json_data[k].latency <= MAX_LATENCY_CONFIG

\* an incremental+full candidate at the latency limit beside a full-only
\* candidate at the age limit
WitC7 ==
    \E j, k \in 1..Len(json_data) :
        /\ Len(json_data[j].files_to_download) = 2
        /\ json_data[j].latency = MAX_LATENCY_CONFIG
        /\ Len(json_data[k].files_to_download) = 1
        /\ json_data[k].slots_diff = MAX_SNAPSHOT_AGE_IN_SLOTS_CONFIG

\* C8: the candidate list holds at most one candidate per peer address, so at
\* most as many candidates as peers were scanned.
ThmC8 ==
    pc \in {"probing", "validate"} =>
        /\ Len(json_data) <= Cardinality(rpc_nodes)
        /\ \A j, k \in 1..Len(json_data) :
               json_data[j].snapshot_address = json_data[k].snapshot_address => j = k
        /\ \A k \in 1..Len(json_data) : json_data[k].snapshot_address \in rpc_nodes

\* the pool has joined with a candidate from each of two peers
WitC8 ==
    /\ pc = "validate"
    /\ Len(json_data) = 2
    /\ Cardinality(rpc_nodes) = 2

\* C9: a peer measured at 0 or under the minimum is marked unsuitable, is not
\* measured or downloaded from again in the attempt, and the next ranked
\* candidate comes next; a peer at or over the minimum is accepted.
ThmC9 ==
    /\ Len(hist.cleared) = Len(hist.measured)
    /\ \A k \in 1..Len(hist.measured) :
           /\ hist.cleared[k] <=> hist.measured[k] \in Range(hist.accepted)
           /\ ~hist.cleared[k] <=> hist.measured[k] \in unsuitable_servers
    /\ \A j, k \in 1..Len(hist.measured) : hist.measured[j] = hist.measured[k] => j = k
    /\ unsuitable_servers \cap Range(hist.accepted) = {}
    /\ pc \in {"validate", "download", "wget"} =>
           /\ \A k \in 1..Len(hist.measured) :
                  hist.measured[k] = rpc_nodes_sorted[k].snapshot_address
           /\ i = Len(hist.measured) + (IF pc = "validate" THEN 1 ELSE 0)

\* the first-ranked peer was too slow and the second-ranked one is accepted
WitC9 ==
    /\ pc = "download"
    /\ Len(hist.measured) = 2
    /\ hist.measured[1] \in unsuitable_servers
    /\ hist.cleared = <<FALSE, TRUE>>
    /\ hist.accepted = <<hist.measured[2]>>

\* C10: after the pool has joined, every probe-stage counter equals the number
\* of discard events of its reason.
CexC10 ==
    (hist.pool_joined /\ pc \in {"validate", "attempt_failed"}) =>
        \A r \in Reasons \ {"VERSION"} : DISCARDED[r] = hist.events[r]

\* candidates of the list that carry the address p
entries_of(p) == {k \in 1..Len(json_data) : json_data[k].snapshot_address = p}

\* C11: while the pool runs, the shared list holds exactly one candidate for
\* every thread that has appended and none for the others, whatever the
\* interleaving; the pool is left only when every thread has finished, and
\* the ranked list then holds the same candidates.
ThmC11 ==
    /\ [](pc = "probing" =>
              \A p \in rpc_nodes :
                  Cardinality(entries_of(p)) = (IF worker[p].out THEN 1 ELSE 0))
    /\ [][(pc = "probing" /\ pc' # "probing") =>
              /\ \A p \in rpc_nodes : worker[p].pc = "done"
              /\ Len(json_data') = Len(json_data)
              /\ Range(json_data') = Range(json_data)
              /\ json_data # <<>> => (pc' = "validate" /\ rpc_nodes_sorted' = json_data')]_vars

\* both threads have appended, the second peer's thread first
WitC11 ==
    /\ pc = "probing"
    /\ rpc_nodes = {Addr("a", 8899), Addr("b", 8899)}
    /\ \A p \in rpc_nodes : worker[p].pc = "done" /\ worker[p].out
    /\ Len(json_data) = 2
    /\ json_data[1].snapshot_address = Addr("b", 8899)
    /\ json_data[2].snapshot_address = Addr("a", 8899)

\* C12 as stated: a peer one of whose probe requests failed (error string of
\* do_request, unexpected shape, unparsable field) has no candidate.
CexC12 ==
    pc = "probing" =>
        \A p \in rpc_nodes : worker[p].failed # "no" => entries_of(p) = {}

\* the threads other than p are as they were
others_untouched(p) == \A q \in rpc_nodes \ {p} : worker'[q] = worker[q]

\* C12 as amended: a failed request is absorbed by its thread: it changes no
\* other thread, every unfinished thread can still take its next step, the
\* thread of a failed incremental request goes on to the independent full
\* HEAD, and a peer whose independent full HEAD failed has no candidate.
ThmC12 ==
    /\ [](pc = "probing" =>
              \A p \in rpc_nodes :
                  /\ worker[p].failed = "final" =>
                         /\ entries_of(p) = {}
                         /\ ~worker[p].out
                         /\ worker[p].pc \in {"incr", "done"}
                  /\ worker[p].pc # "done" =>
                         ENABLED (WIncHead(p) \/ WFullForInc(p) \/ WFullHead(p)
                                     \/ WLoad(p) \/ WStore(p)))
    /\ [][(pc = "probing" /\ pc' = "probing") =>
              \A p \in rpc_nodes :
                  worker'[p] # worker[p] =>
                      /\ others_untouched(p)
                      /\ (worker'[p].failed = "early" /\ worker[p].failed = "no") =>
                             \/ worker'[p].pc = "full_head"
                             \/ worker'[p].pc = "incr" /\ worker'[p].after = "full_head"]_vars

\* one peer's independent full HEAD has failed, the other peer has its
\* candidate in the list
WitC12 ==
    /\ pc = "probing"
    /\ rpc_nodes = {Addr("a", 8899), Addr("b", 8899)}
    /\ worker[Addr("a", 8899)].failed = "final"
    /\ worker[Addr("a", 8899)].pc = "done"
    /\ worker[Addr("b", 8899)].out
    /\ entries_of(Addr("b", 8899)) # {}

\* s holds the elements of l, each once, in ascending order of latency, and
\* elements of equal latency in the order they have in l
stable_sort_of(s, l) ==
    /\ Len(s) = Len(l)
    /\ \A j, k \in 1..Len(s) : j < k => s[j].latency <= s[k].latency
    /\ \E f \in [1..Len(l) -> 1..Len(l)] :
           /\ \A j, k \in 1..Len(l) : f[j] = f[k] => j = k
           /\ \A k \in 1..Len(l) : s[f[k]] = l[k]
           /\ \A j, k \in 1..Len(l) :
                  (j < k /\ l[j].latency = l[k].latency) => f[j] < f[k]

\* C18: the ranked list is the list of emitted candidates in ascending order
\* of latency, candidates of equal latency in the order they were appended;
\* the report's list is the ranked one.
ThmC18 ==
    /\ [](pc = "validate" =>
              /\ json_data = rpc_nodes_sorted
              /\ \A j, k \in 1..Len(rpc_nodes_sorted) :
                     j < k => rpc_nodes_sorted[j].latency <= rpc_nodes_sorted[k].latency)
    /\ [][(pc = "probing" /\ pc' = "validate") =>
              stable_sort_of(rpc_nodes_sorted', json_data)]_vars

\* three candidates have been ranked, two of them of equal latency behind a
\* faster one
WitC18 ==
    /\ pc = "validate"
    /\ Len(rpc_nodes_sorted) = 3
    /\ rpc_nodes_sorted[1].latency = 40
    /\ rpc_nodes_sorted[2].latency = 100
    /\ rpc_nodes_sorted[3].latency = 100
    /\ rpc_nodes_sorted[2].snapshot_address = Addr("c", 8899)
    /\ rpc_nodes_sorted[3].snapshot_address = Addr("a", 8899)

\* what the retry loop does with a failed attempt: sleep if attempts are
\* left, else return False
retry_or_give_up ==
    IF num_attempts_made < NUM_OF_MAX_ATTEMPTS
       THEN pc' = "sleep" /\ result' = None
       ELSE pc' = "done" /\ result' = "False"

\* C19: a peer directory call that yields no peer ends main_worker at once:
\* no pool is created and no peer probed; the run does not end unless this
\* was the last attempt, and the retry loop sleeps and starts the next one.
ThmC19 ==
    /\ [](pc \in {"inspect", "probing"} => rpc_nodes # {})
    /\ [](pc = "probing" => DOMAIN worker = rpc_nodes)
    /\ [][(pc = "get_ips" /\ rpc_nodes' = {}) =>
              /\ pc' = "attempt_failed"
              /\ worker' = <<>>
              /\ json_data' = <<>>
              /\ ~hist'.pool_joined
              /\ result' = None]_vars
    /\ [][pc = "attempt_failed" =>
              /\ retry_or_give_up
              /\ num_attempts_made' = num_attempts_made
              /\ worker' = <<>>]_vars
    /\ [](pc = "sleep" => num_attempts_made < NUM_OF_MAX_ATTEMPTS /\ ENABLED Sleep)
    /\ []((pc = "loop" /\ hist.sleeps > 0) => ENABLED BeginAttempt)

\* the first attempt met an empty peer list and the retry loop sleeps
WitC19 ==
    /\ pc = "sleep"
    /\ num_attempts_made = 1
    /\ hist.worker_failed
    /\ ~hist.pool_joined
    /\ DISCARDED = ZeroTally

\* C20: an attempt whose height fetch fails goes from the fetch straight to
\* the retry bookkeeping: nothing of main_worker runs, the attempt stays
\* counted, and the loop sleeps and starts the next attempt if one is left.
ThmC20 ==
    /\ [][(pc = "get_slot" /\ (pc' # "get_ips" \/ DISCARDED' # DISCARDED)) =>
              /\ retry_or_give_up
              /\ UNCHANGED <<num_attempts_made, WITH_PRIVATE_RPC_CONFIG, current_slot,
                             FULL_LOCAL_SNAP_SLOT, unsuitable_servers, json_data,
                             rpc_nodes, worker, rpc_nodes_sorted, i, files_left,
                             snapshot_dir, hist>>]_vars
    /\ [][pc = "sleep" =>
              /\ pc' = "loop"
              /\ hist'.sleeps = hist.sleeps + 1
              /\ num_attempts_made' = num_attempts_made]_vars
    /\ [][pc = "loop" =>
              /\ pc' = "get_slot"
              /\ num_attempts_made' = num_attempts_made + 1]_vars

\* two attempts have ended at the height fetch; the loop sleeps for the
\* second time
WitC20 ==
    /\ pc = "sleep"
    /\ num_attempts_made = 2
    /\ hist.sleeps = 1
    /\ ~hist.worker_failed
    /\ rpc_nodes = {}
    /\ current_slot = 0

\* ------------------------------------------------------------------------
\* C13: a transfer that ends with a resource error (disk full, rename
\* refused) ends the whole run at once: the run is over with False, no other
\* candidate is examined and no other attempt is started.
CexC13 ==
    (hist.refs # <<>> /\ Last(hist.refs).how \in ResourceErrors) =>
        (pc = "done" /\ result = "False")

\* the names the accepted peer has advertised for the reference at hand: the
\* last path segment of the probed reference or of a freshly advertised one
advertised_names ==
    {PathName(Head(files_left))} \cup {PathName(r.loc) : r \in {x \in net.inc : x.hasloc}}

\* C15: a transfer writes to tmp-<name> only, <name> being the last path
\* segment of an advertised reference; the file <name> appears only when a
\* transfer has ended successfully, by the rename; when a transfer has
\* failed the temporary file is gone and no file <name> was created.
ThmC15 ==
    /\ [](pc # "wget" => snapshot_dir.tmp = {})
    /\ [](pc = "wget" =>
              /\ Cardinality(snapshot_dir.tmp) = 1
              /\ \A t \in snapshot_dir.tmp :
                     t[1] = "tmp" /\ final_name(t) \in advertised_names)
    /\ [][snapshot_dir'.created # snapshot_dir.created => pc = "wget"]_vars
    /\ [][(pc = "download" /\ pc' = "wget") =>
              /\ snapshot_dir'.created = snapshot_dir.created
              /\ snapshot_dir'.newest_full = snapshot_dir.newest_full]_vars
    /\ [][pc = "wget" =>
              LET e == Last(hist'.refs)
              IN  /\ Len(hist'.refs) = Len(hist.refs) + 1
                  /\ snapshot_dir.tmp = {temp_name(e.name)}
                  /\ snapshot_dir'.tmp = {}
                  /\ IF e.how = "ok"
                        THEN snapshot_dir'.created = snapshot_dir.created \cup {e.name}
                        ELSE /\ snapshot_dir'.created = snapshot_dir.created
                             /\ snapshot_dir'.newest_full = snapshot_dir.newest_full]_vars

\* a peer's full snapshot has been fetched and renamed, the rename of its
\* incremental was refused
WitC15 ==
    /\ Len(hist.refs) = 2
    /\ hist.refs[1].how = "ok"
    /\ hist.refs[2].how = "rename_denied"
    /\ snapshot_dir.created = {hist.refs[1].name}
    /\ snapshot_dir.tmp = {}

\* the slot in a full snapshot's file name, 0 for any other name
full_slot_of(name) ==
    IF startswith_snapshot(name) /\ IsInt(name[2]) THEN int(name[2]) ELSE 0

held_locally(f) ==
    /\ startswith_snapshot(PathName(f))
    /\ full_slot_of(PathName(f)) = FULL_LOCAL_SNAP_SLOT
    /\ IsInt(PathName(f)[2])

\* C17: the pass over a full snapshot reference of the local slot starts no
\* wget and sends no HEAD, changes nothing in the directory, counts no
\* failure, and goes on with the next reference; the local slot is as it
\* was, so the same reference would be skipped again.
ThmC17 ==
    [][(pc = "download" /\ files_left # <<>> /\ held_locally(Head(files_left))) =>
           /\ pc' = "download"
           /\ files_left' = Tail(files_left)
           /\ UNCHANGED <<snapshot_dir, FULL_LOCAL_SNAP_SLOT, DISCARDED, i, result>>
           /\ hist'.failed_dl = hist.failed_dl
           /\ hist'.refs = Append(hist.refs, [how |-> "skipped",
                                              name |-> PathName(Head(files_left))])
           /\ skip_download(Head(files_left), FULL_LOCAL_SNAP_SLOT')]_vars

\* in a second attempt the full snapshot fetched in the first one has been
\* skipped and the peer's incremental is next
WitC17 ==
    /\ pc = "download"
    /\ num_attempts_made = 2
    /\ Len(hist.refs) = 1
    /\ hist.refs[1].how = "skipped"
    /\ hist.refs[1].name \in snapshot_dir.created
    /\ Len(files_left) = 1
    /\ hist.failed_dl = {}

\* ------------------------------------------------------------------------
\* C14: a run ended by a user interrupt has ended without success (False
\* returned, or the interrupt passed on to the caller), and no tmp- file is
\* left in the download directory.
CexC14 ==
    (pc = "done" /\ hist.interrupted) =>
        /\ result \in {"False", "KeyboardInterrupt"}
        /\ snapshot_dir.tmp = {}

\* ------------------------------------------------------------------------
\* C21: when an attempt has been entered and nothing of it has run yet, the
\* six discard counters are 0, no peer is marked unsuitable and the
\* candidate list is empty; entering the attempt, like the sleep before it,
\* leaves the private-service flag as the attempt before left it.
ThmC21 ==
    /\ [](pc = "get_slot" =>
              /\ DISCARDED = ZeroTally
              /\ unsuitable_servers = {}
              /\ json_data = <<>>)
    /\ [][(pc = "sleep" \/ pc = "loop") =>
              (WITH_PRIVATE_RPC_CONFIG' = WITH_PRIVATE_RPC_CONFIG)]_vars
    /\ [][pc = "loop" => pc' = "get_slot"]_vars

\* a second attempt has been entered after an attempt that had a candidate
\* (one of its files is in the directory) and that set the flag when it
\* failed
WitC21 ==
    /\ pc = "get_slot"
    /\ num_attempts_made = 2
    /\ snapshot_dir.created # {}
    /\ json_data = <<>>
    /\ DISCARDED = ZeroTally
    /\ unsuitable_servers = {}
    /\ WITH_PRIVATE_RPC_CONFIG

\* ------------------------------------------------------------------------
\* the entries of the endpoint's one answer (none when the call failed)
listed_entries ==
    LET a == CHOOSE x \in net.directory : TRUE
    IN  IF a.kind = "ok" THEN Range(a.listing) ELSE {}

public_addresses == {n.rpc : n \in {e \in listed_entries : e.rpc # NoAddr}}

\* addresses derived from the gossip address of entries without a public one
derived_addresses ==
    {Addr(n.gossip[1], PRIVATE_RPC_PORT) :
        n \in {e \in listed_entries : e.rpc = NoAddr /\ e.gossip # NoAddr}}

\* C22: the peer set of an attempt is the set of the listed public addresses,
\* joined with the addresses derived for entries without a public address
\* exactly when the private-service flag is set for the attempt; in the
\* first attempt of a run the flag is not set, so the peers handed to the
\* pool are the public ones only.
ThmC22 ==
    /\ [][pc = "get_ips" =>
              rpc_nodes' = public_addresses \cup
                              (IF WITH_PRIVATE_RPC_CONFIG THEN derived_addresses ELSE {})]_vars
    /\ []((num_attempts_made = 1 /\ pc \in {"inspect", "probing"}) =>
              /\ ~WITH_PRIVATE_RPC_CONFIG
              /\ rpc_nodes = public_addresses
              /\ pc = "probing" => DOMAIN worker = public_addresses)

\* the endpoint lists one entry, without a public address: the first attempt
\* found no peer, the second attempt probes the derived address
WitC22 ==
    /\ net.directory = {[kind |-> "ok", listing |-> <<PrivateB>>]}
    /\ pc = "probing"
    /\ num_attempts_made = 2
    /\ WITH_PRIVATE_RPC_CONFIG
    /\ DOMAIN worker = {Addr("b", PRIVATE_RPC_PORT)}

\* ------------------------------------------------------------------------
\* the candidate in the download loop lists an incremental and a full
\* reference
both_listed ==
    /\ pc \in {"download", "wget"}
    /\ Len(rpc_nodes_sorted[i].files_to_download) = 2

\* C23 as stated: of a candidate that lists both references the incremental
\* is processed first, the full snapshot last.
CexC23 ==
    (both_listed /\ hist.refs # <<>>) => has_incremental_snapshot(hist.refs[1].name)

\* C23 as amended: of a candidate that lists both references the full
\* snapshot is processed first (fetched, or skipped when held locally), and
\* the incremental is fetched after it, as the last artifact transferred.
ThmC23 ==
    /\ (both_listed /\ hist.refs # <<>>) =>
           /\ hist.refs[1].name = PathName(rpc_nodes_sorted[i].files_to_download[2])
           /\ startswith_snapshot(hist.refs[1].name)
           /\ hist.refs[1].how \in {"ok", "skipped"}
    /\ (both_listed /\ Len(hist.refs) = 2) =>
           /\ has_incremental_snapshot(hist.refs[2].name)
           /\ files_left = <<>>
    /\ (both_listed /\ pc = "wget") =>
           \A t \in snapshot_dir.tmp :
               IF hist.refs = <<>>
                  THEN startswith_snapshot(final_name(t))
                  ELSE has_incremental_snapshot(final_name(t))

\* both references of a candidate have been fetched, the full snapshot
\* first
WitC23 ==
    /\ result = "True"
    /\ Len(hist.refs) = 2
    /\ hist.refs[1].how = "ok"
    /\ startswith_snapshot(hist.refs[1].name)
    /\ hist.refs[2].how = "ok"
    /\ has_incremental_snapshot(hist.refs[2].name)

\* ------------------------------------------------------------------------
\* C24: a candidate with two references is appended by the thread that got a
\* location from the full HEAD made for its incremental; it lists the
\* incremental location and then that full location, and its latency and
\* slots_diff are those of the incremental HEAD.  When such a candidate is
\* accepted the full reference is at the head of the download loop, and the
\* incremental's transfer starts only when the full reference has been
\* fetched or skipped.
ThmC24 ==
    /\ [][\A p \in rpc_nodes :
              (pc = "probing" /\ worker[p].pc = "full_for_inc" /\ worker'[p].out) =>
                  LET c == Last(json_data')
                      r_inc == worker[p].r_inc
                  IN  /\ Len(json_data') = Len(json_data) + 1
                      /\ c.snapshot_address = p
                      /\ Len(c.files_to_download) = 2
                      /\ c.files_to_download[1] = r_inc.loc
                      /\ c.files_to_download[2] \in {r.loc : r \in {x \in net.full : x.hasloc}}
                      /\ c.latency = r_inc.lat
                      /\ c.slots_diff = current_slot - int(r_inc.loc[4])]_vars
    /\ [](\A k \in 1..Len(json_data) :
              Len(json_data[k].files_to_download) = 2 =>
                  has_incremental_snapshot(PathName(json_data[k].files_to_download[1])))
    /\ [][(pc = "validate" /\ pc' = "download"
              /\ Len(rpc_nodes_sorted[i].files_to_download) = 2) =>
                 files_left' = <<rpc_nodes_sorted[i].files_to_download[2],
                                 rpc_nodes_sorted[i].files_to_download[1]>>]_vars
    /\ [][(both_listed /\ pc = "download" /\ pc' = "wget"
              /\ \E t \in snapshot_dir'.tmp : has_incremental_snapshot(final_name(t))) =>
                 /\ Len(hist.refs) = 1
                 /\ hist.refs[1].how \in {"ok", "skipped"}
                 /\ hist.refs[1].name =
                        PathName(rpc_nodes_sorted[i].files_to_download[2])]_vars

\* a candidate whose incremental HEAD took 100 ms and whose full HEAD took
\* 40 ms is in the download loop with latency 100; its full snapshot has
\* been fetched and wget writes its incremental
WitC24 ==
    /\ both_listed
    /\ pc = "wget"
    /\ rpc_nodes_sorted[i].latency = 100
    /\ Len(hist.refs) = 1
    /\ hist.refs[1].how = "ok"
    /\ \E t \in snapshot_dir.tmp : has_incremental_snapshot(final_name(t))

\* ------------------------------------------------------------------------
full_only(c) ==
    /\ Len(c.files_to_download) = 1
    /\ startswith_snapshot(PathName(c.files_to_download[1]))

\* C25: a candidate with only a full reference is within the age limits of
\* the incremental path: its snapshot is at most FUTURE_SLOT_TOLERANCE slots
\* ahead of the current slot and at most the maximum age behind it.
CexC25 ==
    \A k \in 1..Len(json_data) :
        full_only(json_data[k]) =>
            /\ json_data[k].slots_diff >= -FUTURE_SLOT_TOLERANCE
            /\ json_data[k].slots_diff <= MAX_SNAPSHOT_AGE_IN_SLOTS_CONFIG

\* ------------------------------------------------------------------------
\* a location that is no uncompressed archive and whose slot fields parse:
\* base and tip of an incremental, the slot of a full snapshot
well_formed(loc) ==
    /\ ~endswith_tar(loc)
    /\ IF has_incremental_snapshot(PathName(loc))
          THEN Len(loc) > 3 /\ IsInt(loc[3]) /\ IsInt(loc[4])
          ELSE Len(loc) > 2 /\ IsInt(loc[2])

\* C26: every reference of every candidate of the list is well-formed.
CexC26 ==
    \A k \in 1..Len(json_data) :
        \A n \in 1..Len(json_data[k].files_to_download) :
            well_formed(json_data[k].files_to_download[n])

\* ------------------------------------------------------------------------
\* the one answer the peers give to the incremental HEAD
inc_answer == CHOOSE r \in net.inc : TRUE

\* C27: where the incremental HEAD is answered over the latency limit, a
\* latency discard is counted only for a location that is well-formed.
CexC27 ==
    (inc_answer.hasloc /\ inc_answer.lat > MAX_LATENCY_CONFIG
        /\ hist.events["LATENCY"] > 0) => well_formed(inc_answer.loc)

\* ------------------------------------------------------------------------
\* the peers' answer to the incremental HEAD is a well-formed location
\* within the latency and age limits whose base is the local slot
base_held_locally ==
    /\ inc_answer.hasloc
    /\ inc_answer.lat <= MAX_LATENCY_CONFIG
    /\ well_formed(inc_answer.loc)
    /\ has_incremental_snapshot(PathName(inc_answer.loc))
    /\ current_slot - int(inc_answer.loc[4]) >= -FUTURE_SLOT_TOLERANCE
    /\ current_slot - int(inc_answer.loc[4]) <= MAX_SNAPSHOT_AGE_IN_SLOTS_CONFIG
    /\ int(inc_answer.loc[3]) = FULL_LOCAL_SNAP_SLOT

\* C28: when the incremental a peer offers builds on the local full
\* snapshot (and is within the limits), the peer's thread appends a
\* candidate whose only reference is that incremental and ends: it never
\* stands before a full HEAD, and after the join every peer has exactly that
\* candidate.
ThmC28 ==
    /\ [][\A p \in rpc_nodes :
              (pc = "probing" /\ base_held_locally /\ worker[p].pc = "inc_head"
                  /\ worker'[p] # worker[p]) =>
                     /\ worker'[p].pc = "done"
                     /\ worker'[p].out
                     /\ json_data' = Append(json_data,
                            Candidate(p, current_slot - int(inc_answer.loc[4]),
                                      inc_answer.lat, <<inc_answer.loc>>))
                     /\ DISCARDED' = DISCARDED]_vars
    /\ []((pc = "probing" /\ base_held_locally) =>
              \A p \in rpc_nodes : worker[p].pc \in {"inc_head", "done"})
    /\ []((pc = "validate" /\ base_held_locally) =>
              /\ Len(json_data) = Cardinality(rpc_nodes)
              /\ \A k \in 1..Len(json_data) :
                     json_data[k].files_to_download = <<inc_answer.loc>>)

\* the local full snapshot is of slot 2000 and two peers offer an
\* incremental from 2000 to 2950; both threads have ended with a candidate
WitC28 ==
    /\ pc = "probing"
    /\ FULL_LOCAL_SNAP_SLOT = 2000
    /\ base_held_locally
    /\ Cardinality(rpc_nodes) = 2
    /\ \A p \in rpc_nodes : worker[p].pc = "done"
    /\ Len(json_data) = 2

\* ------------------------------------------------------------------------
\* the name wget is writing under, without the 'tmp-' before it
name_in_transfer == final_name(CHOOSE t \in snapshot_dir.tmp : TRUE)

\* C29: when the transfer of an incremental reference is made from another
\* location than the probed one (the freshly advertised one), the base of
\* that location is the local full-snapshot slot.
CexC29 ==
    (/\ pc = "wget"
     /\ has_incremental_snapshot(PathName(Head(files_left)))
     /\ name_in_transfer # PathName(Head(files_left))) =>
        /\ Len(name_in_transfer) >= 3
        /\ IsInt(name_in_transfer[3])
        /\ int(name_in_transfer[3]) = FULL_LOCAL_SNAP_SLOT

\* ------------------------------------------------------------------------
\* the last reference dealt with was a full snapshot whose transfer
\* succeeded and whose name gives its slot
full_just_downloaded ==
    /\ hist.refs # <<>>
    /\ Last(hist.refs).how = "ok"
    /\ startswith_snapshot(Last(hist.refs).name)
    /\ Len(Last(hist.refs).name) >= 2
    /\ IsInt(Last(hist.refs).name[2])

\* C30: the step that ends the successful transfer of a full snapshot of
\* slot H sets the cached local slot to H; the cached slot is H while the
\* candidate's next reference is awaited, and the fresh incremental location
\* replaces the probed one in the next pass only if its base is H.
ThmC30 ==
    /\ [][(/\ pc = "wget"
           /\ pc' = "download"
           /\ startswith_snapshot(PathName(Head(files_left)))
           /\ IsInt(name_in_transfer[2])) =>
              /\ FULL_LOCAL_SNAP_SLOT' = int(name_in_transfer[2])
              /\ files_left' = Tail(files_left)]_vars
    /\ []((pc = "download" /\ full_just_downloaded) =>
              FULL_LOCAL_SNAP_SLOT = int(Last(hist.refs).name[2]))
    /\ [][(/\ pc = "download"
           /\ full_just_downloaded
           /\ files_left # <<>>
           /\ pc' = "wget"
           /\ name_in_transfer' # PathName(Head(files_left))) =>
              /\ Len(name_in_transfer') >= 3
              /\ IsInt(name_in_transfer'[3])
              /\ int(name_in_transfer'[3]) = int(Last(hist.refs).name[2])]_vars

\* a full snapshot of slot 2900 has been downloaded while the directory
\* held none of that slot, and the incremental is now transferred from the
\* fresh location, which builds on 2900
WitC30 ==
    /\ pc = "wget"
    /\ full_just_downloaded
    /\ FULL_LOCAL_SNAP_SLOT = 2900
    /\ has_incremental_snapshot(PathName(Head(files_left)))
    /\ name_in_transfer # PathName(Head(files_left))
    /\ name_in_transfer[3] = "2900"

\* ------------------------------------------------------------------------
\* the full snapshots this run has downloaded
downloaded_fulls == {f \in snapshot_dir.created : is_full_snapshot_file(f)}

\* C31: in an attempt that follows the download of a full snapshot, the
\* threads classify the peers against the slot of a full snapshot the run
\* has downloaded.
CexC31 ==
    (pc = "probing" /\ downloaded_fulls # {}) =>
        \E f \in downloaded_fulls : FULL_LOCAL_SNAP_SLOT = int(f[2])

\* ------------------------------------------------------------------------
\* the peers of the first num_of_rpc_to_check_speed entries of the ranked
\* list
first_ranked ==
    {rpc_nodes_sorted[j].snapshot_address :
        j \in {k \in 1..Len(rpc_nodes_sorted) : k <= num_of_rpc_to_check_speed}}

\* C32: in one attempt at most num_of_rpc_to_check_speed measurements are
\* made, all of them of peers among the first that many entries of the
\* ranked list; no download is made from a later entry; and when the loop
\* has gone past that many entries the attempt fails without a further
\* measurement.
ThmC32 ==
    /\ [](Len(hist.measured) <= num_of_rpc_to_check_speed)
    /\ []((pc = "validate" \/ pc = "download" \/ pc = "wget") =>
              /\ \A k \in 1..Len(hist.measured) : hist.measured[k] \in first_ranked
              /\ \A k \in 1..Len(hist.accepted) : hist.accepted[k] \in first_ranked)
    /\ []((pc = "download" \/ pc = "wget") => i <= num_of_rpc_to_check_speed)
    /\ [][(pc = "validate" /\ i > num_of_rpc_to_check_speed) =>
              /\ pc' = "attempt_failed"
              /\ hist'.measured = hist.measured
              /\ snapshot_dir' = snapshot_dir]_vars

\* sixteen candidates are ranked, the first fifteen have been measured and
\* each has been too slow or has failed its download; the sixteenth is left
WitC32 ==
    /\ pc = "validate"
    /\ Len(rpc_nodes_sorted) = num_of_rpc_to_check_speed + 1
    /\ i = num_of_rpc_to_check_speed + 1
    /\ Len(hist.measured) = num_of_rpc_to_check_speed
    /\ unsuitable_servers # {}
    /\ hist.failed_dl # {}
    /\ Cardinality(unsuitable_servers \cup hist.failed_dl) = num_of_rpc_to_check_speed

\* ------------------------------------------------------------------------
\* the peers' answer to the incremental HEAD is one the incremental path
\* discards: too slow, an uncompressed archive, or a tip outside the age
\* limits
inc_discarded ==
    /\ ~is_error(inc_answer)
    /\ inc_answer.hasloc
    /\ \/ inc_answer.lat > MAX_LATENCY_CONFIG
       \/ endswith_tar(inc_answer.loc)
       \/ /\ Len(inc_answer.loc) > 3
          /\ IsInt(inc_answer.loc[3])
          /\ IsInt(inc_answer.loc[4])
          /\ \/ current_slot - int(inc_answer.loc[4]) < -FUTURE_SLOT_TOLERANCE
             \/ current_slot - int(inc_answer.loc[4]) > MAX_SNAPSHOT_AGE_IN_SLOTS_CONFIG

\* the peers' answer to the incremental HEAD cannot be used: the request
\* failed, there is no location, or its fields do not parse
inc_unusable ==
    \/ is_error(inc_answer)
    \/ ~inc_answer.hasloc
    \/ Len(inc_answer.loc) <= 3
    \/ ~IsInt(inc_answer.loc[3])
    \/ ~IsInt(inc_answer.loc[4])

\* the thread is before a HEAD of the full snapshot, or on its way to one
before_full_head(w) ==
    \/ w.pc = "full_for_inc"
    \/ w.pc = "full_head"
    \/ (w.pc = "incr" /\ w.after = "full_head")

\* the thread is before the independent HEAD of the full snapshot, or on its
\* way to it
before_independent_head(w) ==
    \/ w.pc = "full_head"
    \/ (w.pc = "incr" /\ w.after = "full_head")

\* C33: a thread whose incremental HEAD ended in a discard never stands
\* before a HEAD of the full snapshot; a thread stands before the
\* independent full HEAD only if the incremental answer was unusable or the
\* full HEAD made for the incremental gave no location (it appended
\* nothing).
ThmC33 ==
    /\ []((pc = "probing" /\ inc_discarded) =>
              \A p \in rpc_nodes : ~before_full_head(worker[p]))
    /\ []((pc = "probing" /\ ~inc_unusable) =>
              \A p \in rpc_nodes :
                  before_independent_head(worker[p]) =>
                      /\ worker[p].r_inc = inc_answer
                      /\ ~worker[p].out)
    /\ [][\A p \in rpc_nodes :
              (/\ pc = "probing"
               /\ worker[p].pc = "full_for_inc"
               /\ before_independent_head(worker'[p])) =>
                  json_data' = json_data]_vars

\* two peers have answered the incremental HEAD too slowly; both threads
\* have counted the discard and ended, and nothing was appended
WitC33 ==
    /\ pc = "probing"
    /\ inc_discarded
    /\ inc_answer.lat > MAX_LATENCY_CONFIG
    /\ Cardinality(rpc_nodes) = 2
    /\ \A p \in rpc_nodes : worker[p].pc = "done"
    /\ hist.events["LATENCY"] = 2
    /\ json_data = <<>>

\* ------------------------------------------------------------------------
\* what get_all_rpc_ips returns for the endpoint's answer under the
\* attempt's flag
returned_ips ==
    get_all_rpc_ips(CHOOSE x \in net.directory : TRUE, WITH_PRIVATE_RPC_CONFIG)[1]

\* C34: the list get_all_rpc_ips returns holds no address twice; the peers
\* of the attempt are exactly the addresses of that list, and the pool runs
\* one thread for each of them.
ThmC34 ==
    /\ [](\A j, k \in 1..Len(returned_ips) : returned_ips[j] = returned_ips[k] => j = k)
    /\ []((pc = "inspect" \/ pc = "probing") =>
              /\ rpc_nodes = Range(returned_ips)
              /\ Cardinality(rpc_nodes) = Len(returned_ips))
    /\ [](pc = "probing" => DOMAIN worker = Range(returned_ips))

\* the endpoint lists peer b with its public address and a second entry
\* without a public address whose gossip host is b as well; with the flag
\* set both entries give b:8899, and one thread probes it
WitC34 ==
    /\ net.directory = {[kind |-> "ok", listing |-> <<PublicB, PrivateB>>]}
    /\ WITH_PRIVATE_RPC_CONFIG
    /\ pc = "probing"
    /\ DOMAIN worker = {Addr("b", PRIVATE_RPC_PORT)}

\* ------------------------------------------------------------------------
\* the entries the endpoint has listed, in their order
listing_read == (CHOOSE x \in net.directory : TRUE).listing

\* the entry reports a version and that version passes the configured filter
satisfies_filter(e) ==
    /\ e.version # None
    /\ e.version # NonString
    /\ net.version_filter.wildcard # None =>
           version_contains(e.version, net.version_filter.wildcard)
    /\ net.version_filter.specific # None => e.version = net.version_filter.specific

\* the entry reports a version (a string) and that version fails the filter
fails_filter(e) ==
    e.version # None /\ e.version # NonString /\ ~satisfies_filter(e)

\* the address an entry stands for under the attempt's flag, as a set
address_of(e) ==
    IF e.rpc # NoAddr THEN {e.rpc}
    ELSE IF WITH_PRIVATE_RPC_CONFIG /\ e.gossip # NoAddr
            THEN {Addr(e.gossip[1], PRIVATE_RPC_PORT)}
            ELSE {}

CexC36 ==
    result = "True" =>
        /\ snapshot_dir.report # NoReport
        /\ snapshot_dir.report.rpc_nodes = rpc_nodes_sorted
        /\ snapshot_dir.report.last_update_at = num_attempts_made
        /\ snapshot_dir.report.last_update_slot = current_slot
        /\ \E key \in DOMAIN snapshot_dir.report : key \in DOMAIN DISCARDED

\* ------------------------------------------------------------------------
\* the positions of the run and its results
Positions == {"start", "loop", "get_slot", "get_ips", "inspect", "probing", "validate",
              "download", "wget", "attempt_failed", "sleep", "done"}
Results == {None, "True", "False"}

ThreadPositions == {"inc_head", "full_for_inc", "full_head", "incr", "done"}

\* a step of the program can lead to position v with result r
can_reach(v, r) == ENABLED (Next /\ pc' = v /\ result' = r)

\* a step can take the thread of peer p to position v
thread_can_reach(p, v) ==
    ENABLED (Next /\ p \in DOMAIN worker' /\ worker'[p].pc = v /\ worker'[p] # worker[p])

\* C37: a change of the discard counters alone changes nothing in what the
\* program can do next: for every position and result, a step leading there
\* is possible after the change exactly if it was before, and so is, for
\* every thread of the pool and every position of a thread, a step taking
\* the thread there.
ThmC37 ==
    [][(DISCARDED' # DISCARDED /\ pc' = pc /\ worker' = worker /\ json_data' = json_data) =>
           /\ \A v \in Positions, r \in Results : can_reach(v, r)' = can_reach(v, r)
           /\ \A p \in DOMAIN worker, v \in ThreadPositions :
                  thread_can_reach(p, v)' = thread_can_reach(p, v)]_vars

\* the counters have been changed during an attempt (one peer alone cannot
\* bring a counter above 1 in an attempt that finds a candidate); the run has
\* gone on and has returned True
WitC37 ==
    /\ result = "True"
    /\ \E r \in Reasons : DISCARDED[r] > 1

\* ------------------------------------------------------------------------
\* C38: when the run has returned True holding a local full snapshot and
\* the accepted peer's loop has downloaded an incremental snapshot, the base
\* slot in that file's name is the local full-snapshot slot the program
\* holds.
CexC38 ==
    (result = "True" /\ FULL_LOCAL_SNAP_SLOT > 0) =>
        \A k \in 1..Len(hist.refs) :
            (hist.refs[k].how = "ok" /\ has_incremental_snapshot(hist.refs[k].name)) =>
                /\ Len(hist.refs[k].name) >= 3
                /\ IsInt(hist.refs[k].name[3])
                /\ int(hist.refs[k].name[3]) = FULL_LOCAL_SNAP_SLOT

\* ------------------------------------------------------------------------
\* one of the conditions under which run_snap_finder is to refuse the run
refused ==
    \/ net.entry.cluster_arg \notin {"um", "ut"}
    \/ ~net.entry.configured
    \/ net.entry.answer \notin {"y", "Y", " y "}
    \/ ~net.entry.writable
    \/ ~net.entry.wget_found

\* C39: under any of these conditions the run never enters the retry loop:
\* it is at its entry or has returned False, no attempt is counted, no slot
\* is fetched, no peer is listed or probed, nothing is measured or
\* downloaded; the step from the entry returns False.
ThmC39 ==
    /\ [](refused =>
              /\ pc = "entry" \/ (pc = "done" /\ result = "False")
              /\ num_attempts_made = 0
              /\ current_slot = 0
              /\ rpc_nodes = {}
              /\ worker = <<>>
              /\ json_data = <<>>
              /\ snapshot_dir = Directory(<<>>)
              /\ hist = NoHist)
    /\ [][(pc = "entry" /\ refused) => (pc' = "done" /\ result' = "False")]_vars
    /\ [][(pc = "entry" /\ ~refused) => pc' = "start"]_vars

\* everything is in order except that the download directory fails the write
\* test: the run has returned False
WitC39 ==
    /\ pc = "done"
    /\ result = "False"
    /\ net.entry = [cluster_arg |-> "um", configured |-> TRUE, answer |-> "y",
                    writable |-> FALSE, wget_found |-> TRUE]

\* ------------------------------------------------------------------------
\* the pool has probed every peer of the attempt and main_worker has not
\* yet looked at the outcome
probe_stage_over ==
    /\ pc = "probing"
    /\ rpc_nodes # {}
    /\ DOMAIN worker = rpc_nodes
    /\ \A p \in rpc_nodes : worker[p].pc = "done"

probe_stage_discards ==
    DISCARDED["ARCHIVE_TYPE"] + DISCARDED["LATENCY"] + DISCARDED["SLOT"]
        + DISCARDED["TIMEOUT"] + DISCARDED["UNKNW_ERR"]

\* C40: after the probe stage the number of candidates plus the sum of the
\* archive-type, latency, slot-age, timeout and unknown-error counters is at
\* most the number of peers scanned.
CexC40 ==
    probe_stage_over =>
        Len(json_data) + probe_stage_discards <= Cardinality(rpc_nodes)

====
